---- MODULE Spec2Model ----
(***************************************************************************)
(* A model of pyrometer's abstract-interpretation core: literal ingestion  *)
(* (crates/solc-expressions/src/literal.rs), the assignment engine         *)
(* (assign.rs), the loop abstraction (loops.rs) and the bound history      *)
(* reporter (src/context/bounds_analyzer.rs).                              *)
(*                                                                         *)
(* The analyzer's graph is an arena of ContextVar records (nodes) and of   *)
(* Context records (ctxs).  256-bit integers are sequences of byte limbs,  *)
(* least significant first, without high zero limbs, so that U256          *)
(* arithmetic keeps its width: every U256 operation wraps modulo 2^256 as  *)
(* the operators of the U256 type do.                                      *)
(***************************************************************************)
EXTENDS Integers, Sequences, FiniteSets, TLC

VARIABLES nodes, ctxs, edges, errs, ret, input

vars == <<nodes, ctxs, edges, errs, ret, input>>

(***************************************************************************)
(* Natural numbers of any size: byte limbs, least significant first.  The  *)
(* carries are resolved by lookahead, so that no operation recurses over   *)
(* the limbs.                                                              *)
(***************************************************************************)
\* the sequence of the n values of f, computed once
Mat(f, n) == SubSeq(f, 1, n)

Limb(a, i) == IF i >= 1 /\ i <= Len(a) THEN a[i] ELSE 0

Norm(s) ==
  IF \A i \in 1..Len(s) : s[i] = 0 THEN <<>>
  ELSE SubSeq(s, 1, CHOOSE i \in 1..Len(s) :
                      s[i] # 0 /\ \A j \in (i + 1)..Len(s) : s[j] = 0)

RECURSIVE BigFromNat(_)
BigFromNat(n) == IF n = 0 THEN <<>> ELSE <<n % 256>> \o BigFromNat(n \div 256)

RECURSIVE BigToNat(_)
BigToNat(a) == IF a = <<>> THEN 0 ELSE Head(a) + 256 * BigToNat(Tail(a))

\* the limbs of a sequence of entries in 0..510
Settle(c) ==
  LET cin(k) == IF \E j \in 1..(k - 1) :
                     c[j] >= 256 /\ \A i \in (j + 1)..(k - 1) : c[i] = 255
                THEN 1 ELSE 0
  IN  Norm(Mat([k \in 1..(Len(c) + 1) |-> (Limb(c, k) + cin(k)) % 256], Len(c) + 1))

\* one round of carrying: every entry keeps its low byte and takes the rest
\* of the entry below
Pass(c) ==
  Mat([k \in 1..(Len(c) + 1) |-> (Limb(c, k) % 256) + (Limb(c, k - 1) \div 256)],
      Len(c) + 1)

BigAdd(a, b) ==
  LET n == IF Len(a) > Len(b) THEN Len(a) ELSE Len(b)
  IN  Settle(Mat([k \in 1..n |-> Limb(a, k) + Limb(b, k)], n))

RECURSIVE ColSum(_, _, _, _, _)
\* the sum of a[i] * b[k + 1 - i] for i in lo..hi
ColSum(a, b, k, lo, hi) ==
  IF lo > hi THEN 0
  ELSE IF lo = hi THEN a[lo] * b[k + 1 - lo]
  ELSE LET mid == (lo + hi) \div 2
       IN  ColSum(a, b, k, lo, mid) + ColSum(a, b, k, mid + 1, hi)

BigMul(a, b) ==
  IF a = <<>> \/ b = <<>> THEN <<>>
  ELSE Settle(Pass(Pass(Mat(
         [k \in 1..(Len(a) + Len(b) - 1) |->
            ColSum(a, b, k,
                   IF k + 1 - Len(b) > 1 THEN k + 1 - Len(b) ELSE 1,
                   IF k < Len(a) THEN k ELSE Len(a))],
         Len(a) + Len(b) - 1))))

\* a - b, for a >= b
BigSub(a, b) ==
  LET t(k)   == a[k] - Limb(b, k)
      bin(k) == IF \E j \in 1..(k - 1) :
                     t(j) < 0 /\ \A i \in (j + 1)..(k - 1) : t(i) = 0
                THEN 1 ELSE 0
  IN  Norm(Mat([k \in 1..Len(a) |-> (t(k) - bin(k) + 256) % 256], Len(a)))

BigLess(a, b) ==
  IF Len(a) # Len(b) THEN Len(a) < Len(b)
  ELSE \E i \in 1..Len(a) :
         a[i] < b[i] /\ \A j \in (i + 1)..Len(a) : a[j] = b[j]

BigLeq(a, b) == ~BigLess(b, a)

RECURSIVE Pow2Nat(_)
Pow2Nat(n) == IF n = 0 THEN 1 ELSE 2 * Pow2Nat(n - 1)

Pow2(n) ==
  Mat([i \in 1..((n \div 8) + 1) |-> IF i = (n \div 8) + 1 THEN Pow2Nat(n % 8) ELSE 0],
      (n \div 8) + 1)

RECURSIVE BigPow(_, _)
BigPow(b, e) ==
  IF e = 0 THEN <<1>>
  ELSE LET h  == BigPow(b, e \div 2)
           sq == BigMul(h, h)
       IN  IF e % 2 = 1 THEN BigMul(sq, b) ELSE sq

\* the largest d in lo..hi with b * d <= r
RECURSIVE QDigit(_, _, _, _)
QDigit(r, b, lo, hi) ==
  IF lo = hi THEN lo
  ELSE LET mid == (lo + hi + 1) \div 2
       IN  IF BigLeq(BigMul(b, BigFromNat(mid)), r)
           THEN QDigit(r, b, mid, hi) ELSE QDigit(r, b, lo, mid - 1)

\* long division of a by b > 0, from the top limb (i = Len(a)) down: q holds
\* the quotient limbs and r the remainder of the limbs above i
RECURSIVE DivLimbs(_, _, _, _, _)
DivLimbs(a, b, i, q, r) ==
  IF i = 0 THEN <<q, r>>
  ELSE LET r2 == Norm(<<a[i]>> \o r)
           d  == QDigit(r2, b, 0, 255)
       IN  IF d = 0 THEN DivLimbs(a, b, i - 1, <<0>> \o q, r2)
           ELSE DivLimbs(a, b, i - 1, <<d>> \o q, BigSub(r2, BigMul(b, BigFromNat(d))))

BigDiv(a, b) == Norm(DivLimbs(a, b, Len(a), <<>>, <<>>)[1])
BigMod(a, b) == DivLimbs(a, b, Len(a), <<>>, <<>>)[2]

(***************************************************************************)
(* Decimal and hexadecimal text: a text is a sequence of characters.       *)
(***************************************************************************)
DigitChars == <<"0", "1", "2", "3", "4", "5", "6", "7", "8", "9",
                "a", "b", "c", "d", "e", "f">>

RECURSIVE DecTextNat(_)
\* the decimal text of a small natural number
DecTextNat(n) ==
  IF n < 10 THEN <<DigitChars[n + 1]>>
  ELSE DecTextNat(n \div 10) \o <<DigitChars[(n % 10) + 1]>>

\* the value of one character in the given radix, -1 for an invalid digit
to_digit(c, radix) ==
  LET lower == CASE c = "A" -> "a" [] c = "B" -> "b" [] c = "C" -> "c"
                 [] c = "D" -> "d" [] c = "E" -> "e" [] c = "F" -> "f"
                 [] OTHER -> c
      hits  == {i \in 1..radix : DigitChars[i] = lower}
  IN  IF hits = {} THEN -1 ELSE (CHOOSE i \in hits : TRUE) - 1

RECURSIVE DigitsVal(_, _, _, _)
\* the number written by the digits ds[lo..hi], most significant first
DigitsVal(ds, radix, lo, hi) ==
  IF lo > hi THEN <<>>
  ELSE IF lo = hi THEN BigFromNat(ds[lo])
  ELSE LET mid == (lo + hi) \div 2
       IN  BigAdd(BigMul(DigitsVal(ds, radix, lo, mid),
                         BigPow(BigFromNat(radix), hi - mid)),
                  DigitsVal(ds, radix, mid + 1, hi))

(***************************************************************************)
(* U256 and I256 (alloy_primitives).  A U256 is a natural number below     *)
(* 2^256; an I256 is kept as its raw 256-bit two's complement pattern.     *)
(***************************************************************************)
U256Limbs == 32

Wrap256(a) == Norm(SubSeq(a, 1, IF Len(a) < U256Limbs THEN Len(a) ELSE U256Limbs))

FitsU256(a) == Len(a) <= U256Limbs

U256Mul(a, b) == Wrap256(BigMul(a, b))

\* U256::pow wraps; the exponents of the model are below 2^31
RECURSIVE U256PowNat(_, _)
U256PowNat(b, e) ==
  IF e = 0 THEN <<1>>
  ELSE LET h  == U256PowNat(b, e \div 2)
           sq == U256Mul(h, h)
       IN  IF e % 2 = 1 THEN U256Mul(sq, b) ELSE sq

U256Pow(b, exp) == U256PowNat(b, BigToNat(exp))

U256Div(a, b) == BigDiv(a, b)

RECURSIVE BitLenNat(_)
BitLenNat(n) == IF n = 0 THEN 0 ELSE 1 + BitLenNat(n \div 2)

leading_zeros(val) ==
  IF val = <<>> THEN 8 * U256Limbs
  ELSE 8 * U256Limbs - (8 * (Len(val) - 1) + BitLenNat(val[Len(val)]))

\* U256::from_str_radix: Err on an invalid digit and on a value that does not
\* fit 256 bits
from_str_radix(text, radix) ==
  LET ds == Mat([i \in 1..Len(text) |-> to_digit(text[i], radix)], Len(text))
  IN  IF \E i \in 1..Len(ds) : ds[i] < 0 THEN [ok |-> FALSE, val |-> <<>>]
      ELSE LET v == DigitsVal(ds, radix, 1, Len(ds))
           IN  IF FitsU256(v) THEN [ok |-> TRUE, val |-> v]
               ELSE [ok |-> FALSE, val |-> <<>>]

I256_MinusOne == Mat([i \in 1..U256Limbs |-> 255], U256Limbs)

\* I256::from_raw(val) < I256::ZERO: the sign bit of the pattern
I256IsNegative(raw) == Len(raw) = U256Limbs /\ raw[U256Limbs] >= 128

\* I256 multiplication on the raw patterns
I256Mul(a, b) == Wrap256(BigMul(a, b))

(***************************************************************************)
(* Concrete values (graph::nodes::Concrete).  val is the U256 magnitude of *)
(* a Uint and the raw I256 pattern of an Int.                              *)
(***************************************************************************)
Concrete(kind, size, val) == [kind |-> kind, size |-> size, val |-> val]

NoConcrete == Concrete("None", 0, <<>>)

ConcOk(c) == [ok |-> TRUE, err |-> "", conc |-> c]
ConcErr(e) == [ok |-> FALSE, err |-> e, conc |-> NoConcrete]

\* Option<&str>: <<>> is None, <<u>> is Some(u)
unit_to_uint(unit) ==
  CASE unit = "gwei"    -> BigPow(<<10>>, 9)
    [] unit = "ether"   -> BigPow(<<10>>, 18)
    [] unit = "minutes" -> BigFromNat(60)
    [] unit = "hours"   -> BigFromNat(3600)
    [] unit = "days"    -> BigFromNat(86400)
    [] unit = "weeks"   -> BigFromNat(604800)
    [] OTHER            -> BigFromNat(1)

\* SizeOf without the floor of 8 bits
SizeOfUnclamped(val) == (U256Limbs - (leading_zeros(val) \div 8)) * 8

SizeOf(val) ==
  LET s == (U256Limbs - (leading_zeros(val) \div 8)) * 8
  IN  IF s < 8 THEN 8 ELSE s

concrete_number_from_str(integer, exponent, negative, unit) ==
  LET int == from_str_radix(integer, 10)
  IN  IF ~int.ok THEN ConcErr("ParseError")
      ELSE
      LET exp == IF exponent # <<>> THEN from_str_radix(exponent, 10)
                 ELSE [ok |-> TRUE, val |-> <<>>]
      IN  IF ~exp.ok THEN ConcErr("ParseError")
          ELSE
          LET val0 == IF exponent # <<>>
                      THEN U256Mul(int.val, U256Pow(<<10>>, exp.val))
                      ELSE int.val
              val  == IF unit # <<>> THEN U256Mul(val0, unit_to_uint(unit[1]))
                      ELSE val0
              size == SizeOf(val)
          IN  IF negative
              THEN IF val = Pow2(255)
                   THEN ConcOk(Concrete("Int", size, val))
                   ELSE IF I256IsNegative(val)
                        THEN ConcErr("ParseError")
                        ELSE ConcOk(Concrete("Int", size, I256Mul(I256_MinusOne, val)))
              ELSE ConcOk(Concrete("Uint", size, val))

(***************************************************************************)
(* Elem arithmetic on concrete operands and Concrete::fit_size, as the     *)
(* rational literal uses them: the operands' exact values.                 *)
(***************************************************************************)
elem_max(a, b) == IF BigLess(a, b) THEN b ELSE a
elem_mul(a, b) == BigMul(a, b)
elem_add(a, b) == BigAdd(a, b)

\* the minimal 8-bit-aligned width of a magnitude
fit_size(mag) == IF mag = <<>> THEN 8 ELSE 8 * Len(mag)

rational_number_literal_concrete(integer, fraction, exponent, unit, negative) ==
  LET int == from_str_radix(integer, 10)
      exp == IF exponent # <<>> THEN from_str_radix(exponent, 10)
             ELSE [ok |-> TRUE, val |-> <<>>]
      fraction_denom == U256Pow(<<10>>, BigFromNat(Len(fraction)))
      frac == from_str_radix(fraction, 10)
  IN  IF ~int.ok \/ ~exp.ok \/ ~frac.ok THEN ConcErr("ParseError")
      ELSE
      LET unit_num == IF unit # <<>> THEN unit_to_uint(unit[1]) ELSE BigFromNat(1)
          int_elem == elem_max(int.val, BigFromNat(1))
          shifted  == elem_add(elem_mul(int_elem, fraction_denom), frac.val)
          rhs_power_res == U256Mul(U256Pow(<<10>>, exp.val), unit_num)
      IN  IF BigLess(rhs_power_res, frac.val) THEN ConcErr("ParseError")
          ELSE
          LET val == elem_mul(shifted, U256Div(rhs_power_res, fraction_denom))
          IN  IF negative
              THEN IF BigLess(Pow2(255), val) THEN ConcErr("ParseError")
                   ELSE ConcOk(Concrete("Int", fit_size(val), I256Mul(I256_MinusOne, val)))
              ELSE ConcOk(Concrete("Uint", fit_size(val), val))

(***************************************************************************)
(* Hexadecimal, byte, address, string and boolean literals (literal.rs).   *)
(***************************************************************************)
B256Bytes == 32
AddressBytes == 20

\* str::strip_prefix("0x").unwrap_or(text)
strip_prefix_0x(text) ==
  IF Len(text) >= 2 /\ text[1] = "0" /\ text[2] = "x"
  THEN SubSeq(text, 3, Len(text)) ELSE text

\* hex::decode: Err on an odd number of characters and on a character that
\* is no hexadecimal digit; otherwise one byte for each pair of characters
hex_decode(hex) ==
  IF Len(hex) % 2 # 0 \/ \E i \in 1..Len(hex) : to_digit(hex[i], 16) < 0
  THEN [ok |-> FALSE, val |-> <<>>]
  ELSE [ok |-> TRUE,
        val |-> Mat([k \in 1..(Len(hex) \div 2) |->
                       16 * to_digit(hex[2 * k - 1], 16) + to_digit(hex[2 * k], 16)],
                    Len(hex) \div 2)]

\* h of hex_literals: the decoded bytes, empty when decoding fails
hex_bytes(hex) == IF hex_decode(hex).ok THEN hex_decode(hex).val ELSE <<>>

\* the logical length that counts every byte
hex_max_all(h, i, max) == Len(h)

\* max of hex_literals after the bytes from position i on: one more than the
\* index of the last byte that is not zero
RECURSIVE hex_max(_, _, _)
hex_max(h, i, max) ==
  IF i > Len(h) THEN max
  ELSE hex_max(h, i + 1, IF h[i] # 0 THEN i ELSE max)

\* target of hex_literals: the bytes at the front of a zeroed B256
hex_target(h) ==
  Mat([i \in 1..B256Bytes |-> IF i <= Len(h) THEN h[i] ELSE 0], B256Bytes)

hex_literals_concrete(hex) ==
  IF Len(hex_bytes(hex)) <= B256Bytes
  THEN ConcOk(Concrete("Bytes", hex_max(hex_bytes(hex), 1, 0),
                       hex_target(hex_bytes(hex))))
  ELSE ConcOk(Concrete("DynBytes", 0, hex_bytes(hex)))

\* hex_num_literal_sized without the test of the sign bit
hex_num_literal_sized_unchecked(val, negative) ==
  IF negative
  THEN ConcOk(Concrete("Int", SizeOf(val), I256Mul(I256_MinusOne, val)))
  ELSE ConcOk(Concrete("Uint", SizeOf(val), val))

hex_num_literal_sized(val, negative) ==
  IF negative
  THEN IF I256IsNegative(val) THEN ConcErr("ParseError")
       ELSE ConcOk(Concrete("Int", SizeOf(val), I256Mul(I256_MinusOne, val)))
  ELSE ConcOk(Concrete("Uint", SizeOf(val), val))

hex_num_literal_concrete(integer, negative) ==
  IF ~from_str_radix(strip_prefix_0x(integer), 16).ok THEN ConcErr("ParseError")
  ELSE hex_num_literal_sized(from_str_radix(strip_prefix_0x(integer), 16).val,
                             negative)

\* Address::from_str: twenty bytes in hexadecimal, with or without 0x
address_literal_concrete(addr) ==
  IF hex_decode(strip_prefix_0x(addr)).ok
     /\ Len(hex_decode(strip_prefix_0x(addr)).val) = AddressBytes
  THEN ConcOk(Concrete("Address", 0, hex_decode(strip_prefix_0x(addr)).val))
  ELSE ConcErr("ParseError")

string_literal_concrete(s) == ConcOk(Concrete("String", 0, s))

bool_literal_concrete(b) == ConcOk(Concrete("Bool", 0, <<b>>))

(***************************************************************************)
(* The analyzer's graph: ContextVar nodes, Contexts and ExprRets.          *)
(* Option<T> is a sequence: <<>> is None and <<x>> is Some(x).             *)
(***************************************************************************)
ElemConcrete(c)  == [tag |-> "Concrete", node |-> 0, conc |-> c, args |-> <<>>]
ElemReference(n) == [tag |-> "Reference", node |-> n, conc |-> NoConcrete, args |-> <<>>]
ElemExpr(op, l, r) == [tag |-> op, node |-> 0, conc |-> NoConcrete, args |-> <<l, r>>]

SolcRange(min, max, excl) == [min |-> min, max |-> max, exclusions |-> excl]

Ty(kind, size) == [kind |-> kind, size |-> size]

ContextVar(name, ty, range, ctx, loc) ==
  [name |-> name, ty |-> ty, range |-> range, ctx |-> ctx, loc |-> loc,
   tmp_of |-> <<>>, dep_on |-> <<>>, is_tmp |-> FALSE, is_storage |-> FALSE,
   is_return |-> FALSE, is_struct |-> FALSE, struct_of |-> 0,
   prev |-> 0, inherited |-> FALSE]

Context(parent, kind) ==
  [parent |-> parent, kind |-> kind, killed |-> <<>>, expr_ret_stack |-> <<>>,
   child |-> <<>>]

ExprRetSingle(n)        == [tag |-> "Single", node |-> n, kind |-> "", items |-> <<>>]
ExprRetSingleLiteral(n) == [tag |-> "SingleLiteral", node |-> n, kind |-> "", items |-> <<>>]
ExprRetMulti(items)     == [tag |-> "Multi", node |-> 0, kind |-> "", items |-> items]
ExprRetNull             == [tag |-> "Null", node |-> 0, kind |-> "", items |-> <<>>]
ExprRetCtxKilled(kind)  == [tag |-> "CtxKilled", node |-> 0, kind |-> kind, items |-> <<>>]

Ret(op, status, err, val) == [op |-> op, status |-> status, err |-> err, val |-> val]

NoRet == Ret("none", "none", "", ExprRetNull)

\* a push that leaves the stack as it is
push_expr_none(cs, ctx, expr_ret) == cs

\* ctx.push_expr
push_expr(cs, ctx, expr_ret) ==
  [cs EXCEPT ![ctx].expr_ret_stack = Append(@, expr_ret)]

\* ContextVar::new_from_concrete: a constant variable whose Range is the value
new_from_concrete(loc, ctx, conc, idx) ==
  [ContextVar(<<"tmp", "lit">> \o DecTextNat(idx), Ty(conc.kind, conc.size),
              <<SolcRange(ElemConcrete(conc), ElemConcrete(conc), {})>>, ctx, loc)
     EXCEPT !.is_tmp = TRUE]

(***************************************************************************)
(* Literal ingestion: the inputs of one run are drawn at the start.        *)
(***************************************************************************)
MaxExponent == 80
MaxLits == 2

TextPow255 ==
  <<"5", "7", "8", "9", "6", "0", "4", "4", "6", "1", "8", "6", "5", "8",
    "0", "9", "7", "7", "1", "1", "7", "8", "5", "4", "9", "2", "5", "0",
    "4", "3", "4", "3", "9", "5", "3", "9", "2", "6", "6", "3", "4", "9",
    "9", "2", "3", "3", "2", "8", "2", "0", "2", "8", "2", "0", "1", "9",
    "7", "2", "8", "7", "9", "2", "0", "0", "3", "9", "5", "6", "5", "6",
    "4", "8", "1", "9", "9", "6", "8">>

TextPow255Plus1 ==
  <<"5", "7", "8", "9", "6", "0", "4", "4", "6", "1", "8", "6", "5", "8",
    "0", "9", "7", "7", "1", "1", "7", "8", "5", "4", "9", "2", "5", "0",
    "4", "3", "4", "3", "9", "5", "3", "9", "2", "6", "6", "3", "4", "9",
    "9", "2", "3", "3", "2", "8", "2", "0", "2", "8", "2", "0", "1", "9",
    "7", "2", "8", "7", "9", "2", "0", "0", "3", "9", "5", "6", "5", "6",
    "4", "8", "1", "9", "9", "6", "9">>

TextPow255Less1 ==
  <<"5", "7", "8", "9", "6", "0", "4", "4", "6", "1", "8", "6", "5", "8",
    "0", "9", "7", "7", "1", "1", "7", "8", "5", "4", "9", "2", "5", "0",
    "4", "3", "4", "3", "9", "5", "3", "9", "2", "6", "6", "3", "4", "9",
    "9", "2", "3", "3", "2", "8", "2", "0", "2", "8", "2", "0", "1", "9",
    "7", "2", "8", "7", "9", "2", "0", "0", "3", "9", "5", "6", "5", "6",
    "4", "8", "1", "9", "9", "6", "7">>

TextPow256 ==
  <<"1", "1", "5", "7", "9", "2", "0", "8", "9", "2", "3", "7", "3", "1",
    "6", "1", "9", "5", "4", "2", "3", "5", "7", "0", "9", "8", "5", "0",
    "0", "8", "6", "8", "7", "9", "0", "7", "8", "5", "3", "2", "6", "9",
    "9", "8", "4", "6", "6", "5", "6", "4", "0", "5", "6", "4", "0", "3",
    "9", "4", "5", "7", "5", "8", "4", "0", "0", "7", "9", "1", "3", "1",
    "2", "9", "6", "3", "9", "9", "3", "6">>

TextPow256Less1 ==
  <<"1", "1", "5", "7", "9", "2", "0", "8", "9", "2", "3", "7", "3", "1",
    "6", "1", "9", "5", "4", "2", "3", "5", "7", "0", "9", "8", "5", "0",
    "0", "8", "6", "8", "7", "9", "0", "7", "8", "5", "3", "2", "6", "9",
    "9", "8", "4", "6", "6", "5", "6", "4", "0", "5", "6", "4", "0", "3",
    "9", "4", "5", "7", "5", "8", "4", "0", "0", "7", "9", "1", "3", "1",
    "2", "9", "6", "3", "9", "9", "3", "5">>

Text(n) == DecTextNat(n)

SmallIntegerTexts ==
  {Text(0), Text(1), Text(2), Text(123), Text(255), Text(256), Text(65535),
   <<"0", "0", "7">>}

LargeIntegerTexts ==
  {TextPow255Less1, TextPow255, TextPow255Plus1, TextPow256Less1, TextPow256}

ExponentTexts == {<<>>} \cup {Text(e) : e \in {0, 1, 10, 18} \cup (76..MaxExponent)}

Units == {<<>>} \cup {<<u>> : u \in {"wei", "gwei", "ether", "minutes", "hours",
                                     "days", "weeks", "years"}}

LitInput(fn, integer, fraction, exponent, unit, negative) ==
  [fn |-> fn, integer |-> integer, fraction |-> fraction, exponent |-> exponent,
   unit |-> unit, negative |-> negative]

NumberInputs ==
  {LitInput("number_literal", i, <<>>, e, u, n) :
     i \in SmallIntegerTexts, e \in ExponentTexts,
     u \in {<<>>, <<"ether">>, <<"minutes">>}, n \in BOOLEAN}
  \cup
  {LitInput("number_literal", i, <<>>, e, u, n) :
     i \in {Text(1), Text(123)}, e \in {<<>>, Text(0)}, u \in Units, n \in BOOLEAN}
  \cup
  {LitInput("number_literal", i, <<>>, e, u, n) :
     i \in LargeIntegerTexts, e \in {<<>>, Text(0), Text(1)},
     u \in {<<>>, <<"wei">>, <<"minutes">>, <<"gwei">>}, n \in BOOLEAN}

RationalInputs ==
  {LitInput("rational_number_literal", i, f, e, u, n) :
     i \in {Text(0), Text(1), Text(23)},
     f \in {Text(0), Text(5), Text(25), <<"0", "5">>, <<"5", "0">>,
            <<"0", "0", "0", "0", "1">>},
     e \in {<<>>, Text(0), Text(1), Text(2), Text(18)},
     u \in {<<>>, <<"ether">>, <<"minutes">>},
     n \in BOOLEAN}

\* c written n times
Chars(c, n) == Mat([i \in 1..n |-> c], n)

HexNumInputs ==
  {[fn |-> "hex_num_literal", integer |-> i, negative |-> n] :
     i \in {<<"0", "x", "7", "B">>, <<"7", "b">>, <<"0", "x", "0">>, <<"0", "x">>,
            <<"0", "x", "0", "0", "7", "b">>, <<"0", "x", "1", "2", "3", "4">>,
            <<"0", "x", "z", "z">>, <<"0", "x", "f", "f">>,
            <<"0", "x">> \o Chars("f", 64),
            <<"0", "x", "7">> \o Chars("f", 63),
            <<"0", "x", "8">> \o Chars("0", 63),
            <<"0", "x", "1">> \o Chars("0", 64)},
     n \in BOOLEAN}

HexInputs ==
  {[fn |-> "hex_literals", hex |-> h] :
     h \in {<<>>, <<"7", "b", "f", "f">>, <<"7", "B", "F", "F">>, <<"0", "0">>,
            <<"7", "b", "0", "0">>, <<"0", "0", "7", "b">>,
            <<"0", "1", "0", "0", "0", "2", "0", "0">>,
            <<"7", "b", "f">>, <<"z", "z">>, <<"0", "x", "7", "b">>,
            Chars("f", 64), Chars("0", 64), Chars("0", 62) \o <<"0", "1">>,
            <<"a", "b">> \o Chars("0", 62),
            Chars("f", 66), Chars("0", 66), <<"1", "2">> \o Chars("0", 66)}}

AddressInputs ==
  {[fn |-> "address_literal", addr |-> a] :
     a \in {<<"0", "x">> \o Chars("a", 40), Chars("1", 40),
            <<"0", "x">> \o Chars("a", 39), <<"0", "x">> \o Chars("g", 40), <<>>}}

StringInputs ==
  {[fn |-> "string_literal", s |-> t] : t \in {<<>>, <<"a", "b", "c">>}}

BoolInputs == {[fn |-> "bool_literal", b |-> v] : v \in BOOLEAN}

LitInputs ==
  NumberInputs \cup RationalInputs \cup HexNumInputs \cup HexInputs
  \cup AddressInputs \cup StringInputs \cup BoolInputs

LitCtx == 1
LitLoc == 0

\* the common tail of every literal constructor: the Concrete becomes a
\* constant ContextVar of ctx and a single-literal ExprRet on ctx's stack
LiteralDone(fn, r) ==
  IF ~r.ok
  THEN /\ ret' = Ret(fn, "Err", r.err, ExprRetNull)
       /\ UNCHANGED <<nodes, ctxs, edges>>
  ELSE LET node == Len(nodes) + 1
       IN  /\ nodes' = Append(nodes, new_from_concrete(LitLoc, LitCtx, r.conc, node))
           /\ edges' = edges \cup {[from |-> node, to |-> LitCtx, kind |-> "Variable"]}
           /\ ctxs' = push_expr(ctxs, LitCtx, ExprRetSingleLiteral(node))
           /\ ret' = Ret(fn, "Ok", "", ExprRetNull)

number_literal ==
  /\ input.fn = "number_literal"
  /\ Len(nodes) < MaxLits
  /\ LiteralDone("number_literal",
                 concrete_number_from_str(input.integer, input.exponent,
                                          input.negative, input.unit))
  /\ UNCHANGED <<errs, input>>

rational_number_literal ==
  /\ input.fn = "rational_number_literal"
  /\ Len(nodes) < MaxLits
  /\ LiteralDone("rational_number_literal",
                 rational_number_literal_concrete(input.integer, input.fraction,
                                                  input.exponent, input.unit,
                                                  input.negative))
  /\ UNCHANGED <<errs, input>>

hex_num_literal ==
  /\ input.fn = "hex_num_literal"
  /\ Len(nodes) < MaxLits
  /\ LiteralDone("hex_num_literal",
                 hex_num_literal_concrete(input.integer, input.negative))
  /\ UNCHANGED <<errs, input>>

hex_literals ==
  /\ input.fn = "hex_literals"
  /\ Len(nodes) < MaxLits
  /\ LiteralDone("hex_literals", hex_literals_concrete(input.hex))
  /\ UNCHANGED <<errs, input>>

address_literal ==
  /\ input.fn = "address_literal"
  /\ Len(nodes) < MaxLits
  /\ LiteralDone("address_literal", address_literal_concrete(input.addr))
  /\ UNCHANGED <<errs, input>>

string_literal ==
  /\ input.fn = "string_literal"
  /\ Len(nodes) < MaxLits
  /\ LiteralDone("string_literal", string_literal_concrete(input.s))
  /\ UNCHANGED <<errs, input>>

bool_literal ==
  /\ input.fn = "bool_literal"
  /\ Len(nodes) < MaxLits
  /\ LiteralDone("bool_literal", bool_literal_concrete(input.b))
  /\ UNCHANGED <<errs, input>>

InitLit ==
  /\ nodes = <<>>
  /\ ctxs = <<Context(0, "Fn")>>
  /\ errs = <<>>
  /\ ret = NoRet
  /\ edges = {}
  /\ input \in LitInputs

NextLit ==
  \/ number_literal
  \/ rational_number_literal
  \/ hex_num_literal
  \/ hex_literals
  \/ address_literal
  \/ string_literal
  \/ bool_literal

SpecLit == InitLit /\ [][NextLit]_vars

(***************************************************************************)
(* Literal ingestion: what the literals denote.                            *)
(***************************************************************************)
DecValue(text) ==
  DigitsVal(Mat([i \in 1..Len(text) |-> to_digit(text[i], 10)], Len(text)),
            10, 1, Len(text))

ExpValue(exponent) == IF exponent = <<>> THEN 0 ELSE BigToNat(DecValue(exponent))

UnitFactor(unit) ==
  CASE unit = <<"gwei">>    -> BigFromNat(1000000000)
    [] unit = <<"ether">>   -> BigMul(BigFromNat(1000000000), BigFromNat(1000000000))
    [] unit = <<"minutes">> -> BigFromNat(60)
    [] unit = <<"hours">>   -> BigFromNat(3600)
    [] unit = <<"days">>    -> BigFromNat(86400)
    [] unit = <<"weeks">>   -> BigFromNat(604800)
    [] OTHER                -> BigFromNat(1)

\* integer * 10^exponent * unit of the run's input
ScaledValue ==
  BigMul(BigMul(DecValue(input.integer), BigPow(<<10>>, ExpValue(input.exponent))),
         UnitFactor(input.unit))

\* the Concrete of the literal created last
LitConc == nodes[Len(nodes)].range[1].min.conc

\* size is the smallest multiple of 8 in 8..256 with v < 2^size
MinimalWidth(size, v) ==
  /\ size \in {8 * k : k \in 1..32}
  /\ BigLess(v, Pow2(size))
  /\ size = 8 \/ BigLeq(Pow2(size - 8), v)

\* the raw two's complement pattern of -m, for m <= 2^255
TwosComplementNeg(m) == IF m = <<>> THEN <<>> ELSE BigSub(Pow2(256), m)

\* C6: a number literal whose scaled value integer * 10^exponent * unit does not
\* fit 256 bits is rejected with an error, whether the integer text, the
\* exponent or the unit makes it overflow.
C6_OverflowRejected ==
  (ret.op = "number_literal" /\ ~FitsU256(ScaledValue)) => ret.status = "Err"

\* C9: a non-negative number literal whose scaled value v is below 2^256
\* yields an unsigned Concrete of value v whose width is the smallest multiple
\* of 8 in 8..256 with v < 2^width (123 -> 8, 123e10 -> 48, 123 ether -> 72).
C9_UnsignedValueAndWidth ==
  (ret.op = "number_literal" /\ ~input.negative /\ FitsU256(ScaledValue)) =>
    /\ ret.status = "Ok"
    /\ LitConc.kind = "Uint"
    /\ LitConc.val = ScaledValue
    /\ MinimalWidth(LitConc.size, ScaledValue)
    /\ (input.integer = Text(123) /\ input.exponent \in {<<>>, Text(0)}
          /\ input.unit \in {<<>>, <<"wei">>, <<"years">>})
         => (LitConc.size = 8 /\ LitConc.val = <<123>>)
    /\ (input.integer = Text(123) /\ input.exponent = Text(10) /\ input.unit = <<>>)
         => LitConc.size = 48
    /\ (input.integer = Text(123) /\ input.exponent \in {<<>>, Text(0)}
          /\ input.unit = <<"ether">>)
         => LitConc.size = 72

C9_Witness ==
  /\ ret.op = "number_literal" /\ ret.status = "Ok" /\ ~input.negative
  /\ input.integer = Text(123) /\ input.exponent = Text(10) /\ input.unit = <<>>
  /\ LitConc = Concrete("Uint", 48, <<0, 140, 182, 97, 30, 1>>)

\* C10: a negative number literal of scaled magnitude m succeeds if and only if
\* m <= 2^255, and then yields the signed value -m (negative zero: signed 0 at
\* width 8; m = 2^255: width 256).
C10_NegativeIffFits ==
  (ret.op = "number_literal" /\ input.negative) =>
    /\ ret.status = "Ok" <=> BigLeq(ScaledValue, Pow2(255))
    /\ ret.status = "Err" => ret.err = "ParseError"
    /\ ret.status = "Ok" =>
         /\ LitConc.kind = "Int"
         /\ LitConc.val = TwosComplementNeg(ScaledValue)
         /\ ScaledValue = <<>> => LitConc.size = 8
         /\ ScaledValue = Pow2(255) => LitConc.size = 256

\* the numerator (integer * 10^len(fraction) + fraction) * 10^exponent * unit
\* of the run's rational input, and its denominator 10^len(fraction)
RationalNumerator ==
  BigMul(BigMul(BigAdd(BigMul(DecValue(input.integer),
                              BigPow(<<10>>, Len(input.fraction))),
                       DecValue(input.fraction)),
                BigPow(<<10>>, ExpValue(input.exponent))),
         UnitFactor(input.unit))

RationalDenominator == BigPow(<<10>>, Len(input.fraction))

\* the magnitude of a Concrete
Magnitude(c) == IF c.kind = "Int" /\ c.val # <<>> THEN BigSub(Pow2(256), c.val) ELSE c.val

\* C7: whenever rational_number_literal succeeds, the value produced is exactly
\* (integer * 10^len(fraction) + fraction) * 10^exponent * unit / 10^len(fraction),
\* at the minimal 8-bit-aligned width.
C7_RationalExactValue ==
  (ret.op = "rational_number_literal" /\ ret.status = "Ok") =>
    /\ BigMul(Magnitude(LitConc), RationalDenominator) = RationalNumerator
    /\ LitConc.kind = (IF input.negative THEN "Int" ELSE "Uint")
    /\ MinimalWidth(LitConc.size, Magnitude(LitConc))

\* C8: rational_number_literal fails exactly when the numerator is not
\* divisible by 10^len(fraction).
C8_FailsIffInexact ==
  ret.op = "rational_number_literal" =>
    (ret.status = "Err" <=> BigMod(RationalNumerator, RationalDenominator) # <<>>)

(***************************************************************************)
(* The version graph threaded through a handler, and a handler's outcome:  *)
(* status is "Ok", "Err" (an ExprErr) or "Panic" (the process aborts).     *)
(***************************************************************************)
Graph(ns, cs, eg, es) == [nodes |-> ns, ctxs |-> cs, edges |-> eg, errs |-> es]

Res(g, status, err, val) == [g |-> g, status |-> status, err |-> err, val |-> val]

Edge(from, to, kind) == [from |-> from, to |-> to, kind |-> kind]

\* a context and the contexts it inherits from
RECURSIVE Ancestors(_, _)
Ancestors(cs, ctx) ==
  IF ctx = 0 THEN {} ELSE {ctx} \cup Ancestors(cs, cs[ctx].parent)

MinOf(S) == CHOOSE m \in S : \A k \in S : m <= k

next_versions(ns, n) == {m \in 1..Len(ns) : ns[m].prev = n}

RECURSIVE latest_version(_, _)
latest_version(ns, n) ==
  IF next_versions(ns, n) = {} THEN n
  ELSE latest_version(ns, MinOf(next_versions(ns, n)))

RECURSIVE first_version(_, _)
first_version(ns, n) == IF ns[n].prev = 0 THEN n ELSE first_version(ns, ns[n].prev)

\* the latest version of n that ctx declared or inherits
RECURSIVE latest_version_or_inherited_in_ctx(_, _, _, _)
latest_version_or_inherited_in_ctx(ns, cs, n, ctx) ==
  LET nx == {m \in next_versions(ns, n) : ns[m].ctx \in Ancestors(cs, ctx)}
  IN  IF nx = {} THEN n
      ELSE latest_version_or_inherited_in_ctx(ns, cs, MinOf(nx), ctx)

\* the full default domain of a declared type, None for a type without one:
\* [0, 2^size - 1] for uint<size>, [-2^(size-1), 2^(size-1) - 1] for int<size>
default_range(ty) ==
  LET n == ty.size \div 8
  IN  CASE ty.kind = "Uint" ->
             <<SolcRange(ElemConcrete(Concrete("Uint", ty.size, <<>>)),
                         ElemConcrete(Concrete("Uint", ty.size,
                                               Mat([i \in 1..n |-> 255], n))),
                         {})>>
        [] ty.kind = "Int" ->
             <<SolcRange(ElemConcrete(Concrete("Int", ty.size,
                           Mat([i \in 1..U256Limbs |->
                                  IF i < n THEN 0 ELSE IF i = n THEN 128 ELSE 255],
                               U256Limbs))),
                         ElemConcrete(Concrete("Int", ty.size,
                           Mat([i \in 1..n |-> IF i < n THEN 255 ELSE 127], n))),
                         {})>>
        [] OTHER -> <<>>

ElemCast(e, ty) == ElemExpr("Cast", e, ElemConcrete(Concrete(ty.kind, ty.size, <<>>)))

\* Elem::depends_on with its visited list: does elem transitively reference
\* var; a variable already in seen is not entered again
RECURSIVE depends_on_seen(_, _, _, _)
depends_on_seen(ns, elem, var, seen) ==
  CASE elem.tag = "Concrete" -> [dep |-> FALSE, seen |-> seen]
    [] elem.tag = "Reference" ->
         IF elem.node \in seen THEN [dep |-> FALSE, seen |-> seen]
         ELSE IF elem.node = var THEN [dep |-> TRUE, seen |-> seen]
         ELSE IF ns[elem.node].range = <<>> THEN [dep |-> FALSE, seen |-> seen]
         ELSE LET lo == depends_on_seen(ns, ns[elem.node].range[1].min, var,
                                        seen \cup {elem.node})
              IN  IF lo.dep THEN lo
                  ELSE depends_on_seen(ns, ns[elem.node].range[1].max, var, lo.seen)
    [] OTHER ->
         LET l == depends_on_seen(ns, elem.args[1], var, seen)
         IN  IF l.dep THEN l ELSE depends_on_seen(ns, elem.args[2], var, l.seen)

depends_on(ns, elem, var, seen) == depends_on_seen(ns, elem, var, seen).dep

\* ContextVarNode::cast_from: the right operand takes the left operand's
\* declared numeric domain, its bounds wrapped in a cast; a type without a
\* numeric domain is no cast target and casts nowhere
cast_from(ns, rhs, lhs) ==
  IF \/ ns[rhs].ty = ns[lhs].ty
     \/ default_range(ns[lhs].ty) = <<>>
     \/ default_range(ns[rhs].ty) = <<>>
  THEN ns
  ELSE [ns EXCEPT ![rhs].ty = ns[lhs].ty,
                  ![rhs].range =
                     IF @ = <<>> THEN <<>>
                     ELSE <<SolcRange(ElemCast(@[1].min, ns[lhs].ty),
                                      ElemCast(@[1].max, ns[lhs].ty),
                                      @[1].exclusions)>>]

ty_eq(ns, a, b) == ns[a].ty = ns[b].ty

\* advance_var_in_ctx_forcible: a new version of cvar in ctx, without Range;
\* a non-forced advance returns cvar itself when the substrate finds reuse
\* legal (reuse) and cvar belongs to ctx
advance_var_in_ctx_forcible(ns, cvar, loc, ctx, force, reuse) ==
  IF ~force /\ reuse /\ ns[cvar].ctx = ctx
  THEN [nodes |-> ns, node |-> cvar]
  ELSE [nodes |-> Append(ns, [ns[cvar] EXCEPT !.range = <<>>, !.ctx = ctx,
                                              !.loc = loc, !.prev = cvar,
                                              !.inherited = (ns[cvar].ctx # ctx)]),
        node |-> Len(ns) + 1]

advance_var_in_ctx(ns, cvar, loc, ctx, reuse) ==
  advance_var_in_ctx_forcible(ns, cvar, loc, ctx, FALSE, reuse)

\* the Range a bound is written into: the variable's own, else its type's
range_or_fallback(ns, n) ==
  IF ns[n].range # <<>> THEN ns[n].range ELSE default_range(ns[n].ty)

\* writes one component of the Range of n; fails when n has no Range and its
\* type has no default
set_range(ns, n, base, r) ==
  IF base = <<>> THEN [ok |-> FALSE, nodes |-> ns]
  ELSE [ok |-> TRUE, nodes |-> [ns EXCEPT ![n].range = <<r>>]]

try_set_range_min(ns, n, elem) ==
  LET base == range_or_fallback(ns, n)
  IN  set_range(ns, n, base, IF base = <<>> THEN <<>> ELSE [base[1] EXCEPT !.min = elem])

try_set_range_max(ns, n, elem) ==
  LET base == range_or_fallback(ns, n)
  IN  set_range(ns, n, base, IF base = <<>> THEN <<>> ELSE [base[1] EXCEPT !.max = elem])

try_set_range_exclusions(ns, n, excl) ==
  LET base == range_or_fallback(ns, n)
  IN  set_range(ns, n, base,
                IF base = <<>> THEN <<>> ELSE [base[1] EXCEPT !.exclusions = excl])

\* add_if_err: a failed result is recorded, the handler goes on
add_if_err(es, r, err) == IF r.ok THEN es ELSE Append(es, err)

\* the variables a temporary was constructed from
set_dependent_on(tmp_of) == IF tmp_of = <<>> THEN <<>> ELSE tmp_of[1].deps

\* ctx and the contexts forked below it
RECURSIVE Descendants(_, _)
Descendants(cs, ctx) ==
  {ctx} \cup UNION {Descendants(cs, c) : c \in {d \in 1..Len(cs) : cs[d].parent = ctx}}

\* ContextNode::kill: ctx and its live descendants become terminal
kill(cs, ctx, loc, kind) ==
  Mat([c \in 1..Len(cs) |->
         IF c \in Descendants(cs, ctx) /\ cs[c].killed = <<>>
         THEN [cs[c] EXCEPT !.killed = <<[loc |-> loc, kind |-> kind]>>]
         ELSE cs[c]], Len(cs))

\* the fields of a struct variable, each at its latest version
struct_to_fields(ns, s) ==
  LET decl == {n \in 1..Len(ns) :
                 ns[n].struct_of = first_version(ns, s) /\ ns[n].prev = 0}
      RECURSIVE InOrder(_)
      InOrder(S) == IF S = {} THEN <<>>
                    ELSE <<latest_version(ns, MinOf(S))>> \o InOrder(S \ {MinOf(S)})
  IN  InOrder(decl)

\* split('.').last() of a dotted name
last_segment(name) == name[Len(name)]

(***************************************************************************)
(* The assignment engine (assign.rs).  A handler is a chain of stages,     *)
(* each taking the outcome of the stage before it.                         *)
(***************************************************************************)
\* the self-reference check that never asks for a forced advance
needs_forcible_never(ns, new_lower_bound, new_upper_bound, lhs_cvar) == FALSE

\* does either provisional bound depend on the pre-assignment left variable
needs_forcible(ns, new_lower_bound, new_upper_bound, lhs_cvar) ==
  \/ depends_on(ns, new_lower_bound, lhs_cvar, {})
  \/ depends_on(ns, new_upper_bound, lhs_cvar, {})

\* an end of assign that returns the right operand
advance_rhs_returning_rhs(g, loc, new_lhs, rhs_latest, ctx) ==
  Res([g EXCEPT !.nodes =
         advance_var_in_ctx_forcible(@, rhs_latest, loc, ctx, TRUE, FALSE).nodes],
      "Ok", "", ExprRetSingle(rhs_latest))

\* an end of assign that advances the right operand twice
advance_rhs_twice(g, loc, new_lhs, rhs_latest, ctx) ==
  Res([g EXCEPT !.nodes =
         advance_var_in_ctx_forcible(
           advance_var_in_ctx_forcible(@, rhs_latest, loc, ctx, TRUE, FALSE).nodes,
           Len(@) + 1, loc, ctx, TRUE, FALSE).nodes],
      "Ok", "", ExprRetSingle(new_lhs))

\* an end of assign that leaves the right operand as it is
advance_rhs_skipped(g, loc, new_lhs, rhs_latest, ctx) ==
  Res(g, "Ok", "", ExprRetSingle(new_lhs))

\* the forced advance of the right operand that ends assign
advance_rhs(g, loc, new_lhs, rhs_latest, ctx) ==
  Res([g EXCEPT !.nodes =
         advance_var_in_ctx_forcible(@, rhs_latest, loc, ctx, TRUE, FALSE).nodes],
      "Ok", "", ExprRetSingle(new_lhs))

\* the exclusions of the right operand copied forward; a failure is recorded
set_exclusions(g, exc, loc, new_lhs, rhs_cvar, ctx) ==
  advance_rhs(Graph(exc.nodes, g.ctxs, g.edges, add_if_err(g.errs, exc, "GraphError")),
              loc, new_lhs,
              latest_version_or_inherited_in_ctx(exc.nodes, g.ctxs, rhs_cvar, ctx),
              ctx)

\* the two bounds attached to the new left version; failures are dropped
set_bounds(g, ns, loc, new_lhs, rhs_cvar, ctx) ==
  set_exclusions(g,
                 IF ns[rhs_cvar].range # <<>>
                 THEN try_set_range_exclusions(ns, new_lhs,
                                               ns[rhs_cvar].range[1].exclusions)
                 ELSE [ok |-> TRUE, nodes |-> ns],
                 loc, new_lhs, rhs_cvar, ctx)

\* the bounds of the right operand, cast when the declared types differ
attach_bounds(g, loc, new_lhs, lhs_cvar, rhs_cvar, new_lower_bound, new_upper_bound, ctx) ==
  IF ~ty_eq(g.nodes, lhs_cvar, rhs_cvar)
  THEN IF g.nodes[lhs_cvar].range = <<>>
       THEN Res(g, "Err", "BadRange", ExprRetNull)
       ELSE set_bounds(g,
              try_set_range_max(
                try_set_range_min(g.nodes, new_lhs,
                  ElemExpr("Cast", new_lower_bound, g.nodes[lhs_cvar].range[1].min)).nodes,
                new_lhs,
                ElemExpr("Cast", new_upper_bound, g.nodes[lhs_cvar].range[1].max)).nodes,
              loc, new_lhs, rhs_cvar, ctx)
  ELSE set_bounds(g,
         try_set_range_max(try_set_range_min(g.nodes, new_lhs, new_lower_bound).nodes,
                           new_lhs, new_upper_bound).nodes,
         loc, new_lhs, rhs_cvar, ctx)

\* ContextEdge::ReturnAssign(is_ext_fn_call)
ReturnAssign(ext) == IF ext THEN "ReturnAssign(true)" ELSE "ReturnAssign(false)"

\* a detached right operand that is force-advanced before the failure
link_edges_advancing(g, loc, new_lhs, lhs_cvar, rhs_cvar, new_lower_bound, new_upper_bound, ctx) ==
  IF g.nodes[rhs_cvar].is_return /\ g.nodes[rhs_cvar].ctx = 0
  THEN Res([g EXCEPT !.nodes =
              advance_var_in_ctx_forcible(@, rhs_cvar, loc, ctx, TRUE, FALSE).nodes],
           "Err", "GraphError: DetachedVariable", ExprRetNull)
  ELSE attach_bounds(
         [g EXCEPT !.edges =
            IF g.nodes[rhs_cvar].is_return
            THEN @ \cup {Edge(rhs_cvar, new_lhs,
                              ReturnAssign(g.ctxs[g.nodes[rhs_cvar].ctx].kind
                                             = "ExtFnCall"))}
            ELSE @],
         loc, new_lhs, lhs_cvar, rhs_cvar, new_lower_bound, new_upper_bound, ctx)

\* relations that tag every return assignment as internal
link_edges_untagged(g, loc, new_lhs, lhs_cvar, rhs_cvar, new_lower_bound, new_upper_bound, ctx) ==
  IF g.nodes[rhs_cvar].is_return /\ g.nodes[rhs_cvar].ctx = 0
  THEN Res(g, "Err", "GraphError: DetachedVariable", ExprRetNull)
  ELSE attach_bounds(
         [g EXCEPT !.edges =
            IF g.nodes[rhs_cvar].is_return
            THEN @ \cup {Edge(rhs_cvar, new_lhs, ReturnAssign(FALSE))}
            ELSE @],
         loc, new_lhs, lhs_cvar, rhs_cvar, new_lower_bound, new_upper_bound, ctx)

\* the relations of the new left version: storage write and return assignment;
\* a return-valued right operand without a context is a detached variable
link_edges(g, loc, new_lhs, lhs_cvar, rhs_cvar, new_lower_bound, new_upper_bound, ctx) ==
  IF g.nodes[rhs_cvar].is_return /\ g.nodes[rhs_cvar].ctx = 0
  THEN Res(g, "Err", "GraphError: DetachedVariable", ExprRetNull)
  ELSE attach_bounds(
         [g EXCEPT !.edges =
            IF g.nodes[rhs_cvar].is_return
            THEN @ \cup {Edge(rhs_cvar, new_lhs,
                              ReturnAssign(g.ctxs[g.nodes[rhs_cvar].ctx].kind
                                             = "ExtFnCall"))}
            ELSE @],
         loc, new_lhs, lhs_cvar, rhs_cvar, new_lower_bound, new_upper_bound, ctx)

\* a new left version that is widened to 256 bits
link_new_lhs_widening(g, adv, loc, lhs_cvar, rhs_cvar, new_lower_bound, new_upper_bound, ctx) ==
  link_edges([g EXCEPT !.nodes = [adv.nodes EXCEPT ![adv.node].ty.size = 256]],
             loc, adv.node, lhs_cvar, rhs_cvar, new_lower_bound, new_upper_bound, ctx)

\* the dependency written on the left version from before the advance
link_new_lhs_on_old(g, adv, loc, lhs_cvar, rhs_cvar, new_lower_bound, new_upper_bound, ctx) ==
  link_edges([g EXCEPT !.nodes = [adv.nodes EXCEPT ![lhs_cvar].dep_on = <<<<rhs_cvar>>>>]],
             loc, adv.node, lhs_cvar, rhs_cvar, new_lower_bound, new_upper_bound, ctx)

\* the new left version inherits the temporary origin of the right operand
\* and depends on it
link_new_lhs(g, adv, loc, lhs_cvar, rhs_cvar, new_lower_bound, new_upper_bound, ctx) ==
  link_edges(
    [g EXCEPT
       !.nodes = [adv.nodes EXCEPT
                    ![adv.node].tmp_of = adv.nodes[rhs_cvar].tmp_of,
                    ![adv.node].dep_on =
                       IF @ # <<>> THEN <<Append(@[1], rhs_cvar)>>
                       ELSE <<set_dependent_on(adv.nodes[rhs_cvar].tmp_of)>>],
       !.edges = IF adv.nodes[lhs_cvar].is_storage
                 THEN @ \cup {Edge(adv.node, rhs_cvar, "StorageWrite")}
                 ELSE @],
    loc, adv.node, lhs_cvar, rhs_cvar, new_lower_bound, new_upper_bound, ctx)

\* the left variable advanced, forcibly if a bound depends on it
advance_lhs(g, ns, loc, lhs_cvar, rhs_cvar, new_lower_bound, new_upper_bound, ctx, reuse) ==
  link_new_lhs(g,
    advance_var_in_ctx_forcible(
      ns, latest_version_or_inherited_in_ctx(ns, g.ctxs, lhs_cvar, ctx), loc, ctx,
      needs_forcible(ns, new_lower_bound, new_upper_bound, lhs_cvar), reuse),
    loc, lhs_cvar, rhs_cvar, new_lower_bound, new_upper_bound, ctx)

\* the provisional bounds: both the right operand's current version
provisional_bounds(g, ns, loc, lhs_cvar, rhs_cvar, ctx, reuse) ==
  advance_lhs(g, ns, loc, lhs_cvar, rhs_cvar,
              ElemReference(latest_version_or_inherited_in_ctx(ns, g.ctxs, rhs_cvar, ctx)),
              ElemReference(latest_version_or_inherited_in_ctx(ns, g.ctxs, rhs_cvar, ctx)),
              ctx, reuse)

RECURSIVE assign(_, _, _, _, _, _)
RECURSIVE assign_fields(_, _, _, _, _, _, _)

\* the outcome of one field's assignment: a failure ends the loop
assign_fields_next(r, loc, lhs_fields, rhs_fields, i, ctx, reuse) ==
  IF r.status # "Ok" THEN r
  ELSE assign_fields(r.g, loc, lhs_fields, rhs_fields, i + 1, ctx, reuse)

\* the right fields whose trailing name segment is that of the left field
matching_fields(ns, lhs_field, rhs_fields) ==
  {j \in 1..Len(rhs_fields) :
     last_segment(ns[rhs_fields[j]].name) = last_segment(ns[lhs_field].name)}

\* the loop over the left fields of a struct assignment: each is assigned from
\* the first right field with the same trailing name segment
assign_fields(g, loc, lhs_fields, rhs_fields, i, ctx, reuse) ==
  IF i > Len(lhs_fields) THEN Res(g, "Ok", "", ExprRetNull)
  ELSE IF matching_fields(g.nodes, lhs_fields[i], rhs_fields) = {}
  THEN Res(g, "Err", "ParseError: Struct types mismatched", ExprRetNull)
  ELSE assign_fields_next(
         assign(g, loc, lhs_fields[i],
                rhs_fields[MinOf(matching_fields(g.nodes, lhs_fields[i], rhs_fields))],
                ctx, reuse),
         loc, lhs_fields, rhs_fields, i, ctx, reuse)

\* a struct assignment that advances the struct variable
assign_struct_done_advancing(r, lhs_cvar) ==
  IF r.status # "Ok" THEN r
  ELSE Res([r.g EXCEPT !.nodes =
              advance_var_in_ctx_forcible(@, lhs_cvar, 0, @[lhs_cvar].ctx, TRUE, FALSE).nodes],
           "Ok", "", ExprRetSingle(lhs_cvar))

\* a struct assignment returns the struct variable itself
assign_struct_done(r, lhs_cvar) ==
  IF r.status # "Ok" THEN r ELSE Res(r.g, "Ok", "", ExprRetSingle(lhs_cvar))

\* Assign::assign
assign(g, loc, lhs_cvar, rhs_cvar, ctx, reuse) ==
  IF g.nodes[lhs_cvar].is_struct /\ g.nodes[rhs_cvar].is_struct
  THEN assign_struct_done(
         assign_fields(g, loc, struct_to_fields(g.nodes, lhs_cvar),
                       struct_to_fields(g.nodes, rhs_cvar), 1, ctx, reuse),
         lhs_cvar)
  ELSE provisional_bounds(g, cast_from(g.nodes, rhs_cvar, lhs_cvar), loc,
                          lhs_cvar, rhs_cvar, ctx, reuse)

\* the arm of match_assign_sides for the pairings it does not implement
\* returning Ok
todo_silent(g) == Res(g, "Ok", "", ExprRetNull)

\* todo!(): the process aborts
todo(g) == Res(g, "Panic", "not yet implemented", ExprRetNull)

\* a null arm that kills the context
null_arm_killing(g, ctx, loc) ==
  Res([g EXCEPT !.ctxs = kill(@, ctx, loc, "Revert")], "Ok", "", ExprRetNull)

\* the arm of match_assign_sides for a null side: nothing happens
null_arm(g, ctx, loc) == Res(g, "Ok", "", ExprRetNull)

\* the arm of match_assign_sides for a killed side: the context is killed
\* with the kind of the left side if that is the killed one, else of the right
kill_arm(g, ctx, loc, lhs_paths, rhs_paths) ==
  Res([g EXCEPT !.ctxs = kill(@, ctx, loc,
                              IF lhs_paths.tag = "CtxKilled"
                              THEN lhs_paths.kind ELSE rhs_paths.kind)],
      "Ok", "", ExprRetNull)

RECURSIVE match_assign_sides(_, _, _, _, _, _)
RECURSIVE try_for_each(_, _, _, _, _, _, _)

try_for_each_next(r, ctx, loc, lhs_seq, rhs_seq, i, reuse) ==
  IF r.status # "Ok" THEN r
  ELSE try_for_each(r.g, ctx, loc, lhs_seq, rhs_seq, i + 1, reuse)

\* an iteration that stops after its first pair
try_for_each_once(g, ctx, loc, lhs_seq, rhs_seq, i, reuse) ==
  IF i > 1 THEN Res(g, "Ok", "", ExprRetNull)
  ELSE try_for_each_next(
         match_assign_sides(g, ctx, loc, lhs_seq[i], rhs_seq[i], reuse),
         ctx, loc, lhs_seq, rhs_seq, i, reuse)

\* iter().try_for_each over pairs of sides: stops at the first failure
try_for_each(g, ctx, loc, lhs_seq, rhs_seq, i, reuse) ==
  IF i > Len(lhs_seq) THEN Res(g, "Ok", "", ExprRetNull)
  ELSE try_for_each_next(
         match_assign_sides(g, ctx, loc, lhs_seq[i], rhs_seq[i], reuse),
         ctx, loc, lhs_seq, rhs_seq, i, reuse)

Repeat(x, n) == Mat([i \in 1..n |-> x], n)

\* the value of a scalar assignment goes on the stack of ctx
push_assigned(r, ctx) ==
  IF r.status # "Ok" THEN r
  ELSE Res([r.g EXCEPT !.ctxs = push_expr(@, ctx, r.val)], "Ok", "", ExprRetNull)

\* scalar arms that assign the versions they are handed
assign_unresolved(g, ctx, loc, lhs, rhs, reuse) ==
  push_assigned(assign(g, loc, lhs, rhs, ctx, reuse), ctx)

\* the scalar arms: both sides resolved to the latest version ctx sees
assign_latest(g, ctx, loc, lhs, rhs, reuse) ==
  push_assigned(
    assign(g, loc,
           latest_version_or_inherited_in_ctx(g.nodes, g.ctxs, lhs, ctx),
           latest_version_or_inherited_in_ctx(g.nodes, g.ctxs, rhs, ctx),
           ctx, reuse),
    ctx)

\* Assign::match_assign_sides
match_assign_sides(g, ctx, loc, lhs_paths, rhs_paths, reuse) ==
  CASE rhs_paths.tag = "Null" \/ lhs_paths.tag = "Null" ->
         null_arm(g, ctx, loc)
    [] lhs_paths.tag # "Null" /\ rhs_paths.tag # "Null"
       /\ (lhs_paths.tag = "CtxKilled" \/ rhs_paths.tag = "CtxKilled") ->
         kill_arm(g, ctx, loc, lhs_paths, rhs_paths)
    [] lhs_paths.tag = "Single" /\ rhs_paths.tag \in {"Single", "SingleLiteral"} ->
         assign_latest(g, ctx, loc, lhs_paths.node, rhs_paths.node, reuse)
    [] lhs_paths.tag = "Single" /\ rhs_paths.tag = "Multi" ->
         try_for_each(g, ctx, loc, Repeat(lhs_paths, Len(rhs_paths.items)),
                      rhs_paths.items, 1, reuse)
    [] lhs_paths.tag = "Multi" /\ rhs_paths.tag = "Multi"
       /\ Len(lhs_paths.items) # Len(rhs_paths.items) ->
         try_for_each(g, ctx, loc, Repeat(lhs_paths, Len(rhs_paths.items)),
                      rhs_paths.items, 1, reuse)
    [] lhs_paths.tag = "Multi"
       /\ \/ rhs_paths.tag \in {"Single", "SingleLiteral"}
          \/ rhs_paths.tag = "Multi" /\ Len(lhs_paths.items) = Len(rhs_paths.items) ->
         try_for_each(g, ctx, loc, lhs_paths.items,
                      IF rhs_paths.tag = "Multi" THEN rhs_paths.items
                      ELSE Repeat(rhs_paths, Len(lhs_paths.items)),
                      1, reuse)
    [] OTHER -> todo(g)

(***************************************************************************)
(* Statement evaluation, as far as the loop abstraction drives it: a loop  *)
(* body is a sequence of statements  name = literal | name | name + 1  and *)
(* revert.                                                                 *)
(***************************************************************************)
StmtAssign(lhs, rhs) == [k |-> "assign", lhs |-> lhs, rhs |-> rhs]
StmtRevert == [k |-> "revert", lhs |-> <<>>, rhs |-> <<>>]
ExprLit(n) == [k |-> "lit", name |-> <<>>, val |-> n]
ExprVar(name) == [k |-> "var", name |-> name, val |-> 0]
ExprInc(name) == [k |-> "inc", name |-> name, val |-> 1]

\* ctx.var_by_name: the first declared variable of that name that ctx holds
\* or inherits, None if there is none
var_by_name(ns, cs, ctx, name) ==
  LET S == {n \in 1..Len(ns) : ns[n].name = name /\ ns[n].ctx \in Ancestors(cs, ctx)}
  IN  IF S = {} THEN <<>> ELSE <<MinOf(S)>>

\* a temporary for  v + 1  in ctx, named after its node: its bounds reference v
new_tmp(ns, v, loc, ctx) ==
  [ContextVar(<<"tmp">> \o DecTextNat(Len(ns) + 1) \o ns[v].name,
              ns[v].ty,
              <<SolcRange(ElemExpr("Add", ElemReference(v),
                                   ElemConcrete(Concrete("Uint", 8, <<1>>))),
                          ElemExpr("Add", ElemReference(v),
                                   ElemConcrete(Concrete("Uint", 8, <<1>>))),
                          {})>>,
              ctx, loc)
     EXCEPT !.is_tmp = TRUE,
            !.tmp_of = <<[lhs |-> v, op |-> "Add", rhs |-> 0, deps |-> <<v>>]>>,
            !.dep_on = <<<<v>>>>]

\* evaluating an expression of a body in ctx: the graph and the ExprRet
eval_expr(g, ctx, loc, e) ==
  CASE e.k = "lit" ->
         Res([g EXCEPT !.nodes =
                Append(@, new_from_concrete(loc, ctx,
                                            Concrete("Uint", 8, BigFromNat(e.val)),
                                            Len(g.nodes) + 1))],
             "Ok", "", ExprRetSingleLiteral(Len(g.nodes) + 1))
    [] e.k = "var" ->
         Res(g, "Ok", "", ExprRetSingle(var_by_name(g.nodes, g.ctxs, ctx, e.name)[1]))
    [] OTHER ->
         LET v == latest_version_or_inherited_in_ctx(
                    g.nodes, g.ctxs, var_by_name(g.nodes, g.ctxs, ctx, e.name)[1], ctx)
         IN  Res([g EXCEPT !.nodes = Append(@, new_tmp(g.nodes, v, loc, ctx))],
                 "Ok", "", ExprRetSingle(Len(g.nodes) + 1))

RECURSIVE interpret(_, _, _, _, _, _)

\* the outcome of one statement: an ExprErr is recorded and the next statement
\* runs, a panic ends everything
interpret_next(r, ctx, loc, body, i, reuse) ==
  IF r.status = "Panic" THEN r
  ELSE interpret(IF r.status = "Err" THEN [r.g EXCEPT !.errs = Append(@, r.err)]
                 ELSE r.g,
                 ctx, loc, body, i + 1, reuse)

\* the assignment of a body, its two sides evaluated
interpret_sides(lhs, rhs_val, ctx, loc, body, i, reuse) ==
  interpret_next(match_assign_sides(lhs.g, ctx, loc, lhs.val, rhs_val, reuse),
                 ctx, loc, body, i, reuse)

interpret_assign(rhs, ctx, loc, body, i, reuse) ==
  interpret_sides(eval_expr(rhs.g, ctx, loc, ExprVar(body[i].lhs)), rhs.val,
                  ctx, loc, body, i, reuse)

\* interpret: the statements of body run once, in order, in ctx; a killed ctx
\* runs nothing more
interpret(g, ctx, loc, body, i, reuse) ==
  IF i > Len(body) \/ g.ctxs[ctx].killed # <<>> THEN Res(g, "Ok", "", ExprRetNull)
  ELSE IF body[i].k = "revert"
  THEN interpret([g EXCEPT !.ctxs = kill(@, ctx, loc, "Revert")],
                 ctx, loc, body, i + 1, reuse)
  ELSE interpret_assign(eval_expr(g, ctx, loc, body[i].rhs), ctx, loc, body, i, reuse)

(***************************************************************************)
(* The loop abstraction (loops.rs).                                        *)
(***************************************************************************)
\* the live leaves below ctx (ctx itself if it has no child), on which
\* apply_to_edges runs its closure, in creation order
live_edges(cs, ctx) ==
  {c \in Descendants(cs, ctx) : cs[c].child = <<>> /\ cs[c].killed = <<>>}

RECURSIVE SetToSeq(_)
SetToSeq(S) == IF S = {} THEN <<>> ELSE <<MinOf(S)>> \o SetToSeq(S \ {MinOf(S)})

\* subctx.local_vars: one entry per name declared in subctx, the variable
\* added last under that name
local_vars(ns, subctx) ==
  SetToSeq({n \in 1..Len(ns) :
              /\ ns[n].ctx = subctx
              /\ \A m \in (n + 1)..Len(ns) :
                   ~(ns[m].ctx = subctx /\ ns[m].name = ns[n].name)})

\* the widening that leaves every variable as the body computed it
widen_skip(g, loc, ctx, var, reuse) == g

\* the default range written into the advanced variable; failures are recorded
set_default_range(g, adv, r) ==
  [g EXCEPT
     !.nodes = try_set_range_max(try_set_range_min(adv.nodes, adv.node, r.min).nodes,
                                 adv.node, r.max).nodes,
     !.errs = add_if_err(
                add_if_err(@, try_set_range_min(adv.nodes, adv.node, r.min), "GraphError"),
                try_set_range_max(try_set_range_min(adv.nodes, adv.node, r.min).nodes,
                                  adv.node, r.max),
                "GraphError")]

\* the closure body for one local variable: widen to the type's default range
widen(g, loc, ctx, var, reuse) ==
  IF var_by_name(g.nodes, g.ctxs, ctx, g.nodes[var].name) = <<>> THEN g
  ELSE IF default_range(g.nodes[var].ty) = <<>> THEN g
  ELSE set_default_range(
         g,
         advance_var_in_ctx(
           g.nodes,
           latest_version(g.nodes,
                          var_by_name(g.nodes, g.ctxs, ctx, g.nodes[var].name)[1]),
           loc, ctx, reuse),
         default_range(g.nodes[var].ty)[1])

RECURSIVE widen_all(_, _, _, _, _, _)
widen_all(g, loc, ctx, lvars, i, reuse) ==
  IF i > Len(lvars) THEN g
  ELSE widen_all(widen(g, loc, ctx, lvars[i], reuse), loc, ctx, lvars, i + 1, reuse)

\* the successor context of a live leaf of the loop body
add_subctx(g, ctx, kind) ==
  [g EXCEPT !.ctxs = Append([@ EXCEPT ![ctx].child = <<Len(g.ctxs) + 1>>],
                            Context(ctx, kind))]

\* the closure of reset_vars on each live leaf of the loop body: widen, then
\* open the successor context
RECURSIVE close_loop(_, _, _, _, _, _, _)
close_loop(g, loc, og_ctx, subctx, leaves, i, reuse) ==
  IF i > Len(leaves) THEN g
  ELSE close_loop(
         add_subctx(widen_all(g, loc, leaves[i], local_vars(g.nodes, subctx), 1, reuse),
                    leaves[i], "FnReturn"),
         loc, og_ctx, subctx, leaves, i + 1, reuse)

\* after the single pass over the body
reset_vars_close(r, loc, ctx, subctx, reuse) ==
  IF r.status = "Panic" THEN r
  ELSE Res(close_loop(r.g, loc, ctx, subctx,
                      SetToSeq(live_edges(r.g.ctxs, subctx)), 1, reuse),
           "Ok", "", ExprRetNull)

\* a loop whose body is run a second time in the same context
reset_vars_twice(g, loc, ctx, body, reuse) ==
  reset_vars_close(
    interpret(interpret([add_subctx(g, ctx, "Loop")
                           EXCEPT !.edges = @ \cup {Edge(Len(g.ctxs) + 1, ctx, "Loop")}],
                        Len(g.ctxs) + 1, loc, body, 1, reuse).g,
              Len(g.ctxs) + 1, loc, body, 1, reuse),
    loc, ctx, Len(g.ctxs) + 1, reuse)

\* Looper::reset_vars
reset_vars(g, loc, ctx, body, reuse) ==
  reset_vars_close(
    interpret([add_subctx(g, ctx, "Loop")
                 EXCEPT !.edges = @ \cup {Edge(Len(g.ctxs) + 1, ctx, "Loop")}],
              Len(g.ctxs) + 1, loc, body, 1, reuse),
    loc, ctx, Len(g.ctxs) + 1, reuse)

RECURSIVE while_loop_edges(_, _, _, _, _, _)

while_loop_next(r, loc, leaves, i, body, reuse) ==
  IF r.status # "Ok" THEN r
  ELSE while_loop_edges(r.g, loc, leaves, i + 1, body, reuse)

\* the closure of while_loop run on each live leaf of ctx
while_loop_edges(g, loc, leaves, i, body, reuse) ==
  IF i > Len(leaves) THEN Res(g, "Ok", "", ExprRetNull)
  ELSE while_loop_next(reset_vars(g, loc, leaves[i], body, reuse),
                       loc, leaves, i, body, reuse)

\* Looper::while_loop
while_loop(g, loc, ctx, body, reuse) ==
  while_loop_edges(g, loc, SetToSeq(live_edges(g.ctxs, ctx)), 1, body, reuse)

(***************************************************************************)
(* The analysis of one function body: a function context that declares     *)
(*   uint8 x;  uint16 y (storage);  a function-typed f;  the literal 5;    *)
(*   struct s1 {a, b};  struct s2 {a, c}                                   *)
(* and, from there, assignments, temporaries and while loops.              *)
(***************************************************************************)
MaxNodes == 11
MaxCtxs == 3
MaxTmps == 1
\* the source position of the statements
Locs == {1}

Declared(name, ty, ctx) == ContextVar(name, ty, default_range(ty), ctx, 0)

InitNodes ==
  <<Declared(<<"x">>, Ty("Uint", 8), 1),
    [Declared(<<"y">>, Ty("Uint", 16), 1) EXCEPT !.is_storage = TRUE],
    Declared(<<"f">>, Ty("Func", 0), 1),
    new_from_concrete(0, 1, Concrete("Uint", 8, <<5>>), 4),
    [Declared(<<"s1">>, Ty("Struct", 0), 1) EXCEPT !.is_struct = TRUE],
    [Declared(<<"s1", "a">>, Ty("Uint", 8), 1) EXCEPT !.struct_of = 5],
    [Declared(<<"s1", "b">>, Ty("Uint", 8), 1) EXCEPT !.struct_of = 5],
    [Declared(<<"s2">>, Ty("Struct", 0), 1) EXCEPT !.is_struct = TRUE],
    [Declared(<<"s2", "a">>, Ty("Uint", 8), 1) EXCEPT !.struct_of = 8],
    [Declared(<<"s2", "c">>, Ty("Uint", 8), 1) EXCEPT !.struct_of = 8]>>

Init ==
  /\ nodes = InitNodes
  /\ ctxs = <<Context(0, "Fn")>>
  /\ edges = {}
  /\ errs = <<>>
  /\ ret = NoRet
  /\ input = [fn |-> "none"]

\* the first versions of the variables ctx holds or inherits
Roots(ctx) ==
  {n \in 1..Len(nodes) : nodes[n].prev = 0 /\ nodes[n].ctx \in Ancestors(ctxs, ctx)}

Scalars(ctx) ==
  {n \in Roots(ctx) : ~nodes[n].is_tmp /\ ~nodes[n].is_struct /\ nodes[n].struct_of = 0}
Tmps(ctx) == {n \in Roots(ctx) : nodes[n].is_tmp /\ nodes[n].tmp_of # <<>>}
Lits(ctx) == {n \in Roots(ctx) : nodes[n].is_tmp /\ nodes[n].tmp_of = <<>>}
Structs(ctx) == {n \in Roots(ctx) : nodes[n].is_struct}
Uints(ctx) == {n \in Scalars(ctx) : nodes[n].ty.kind = "Uint"}

\* the pairs of sides the evaluation of an assignment hands over
ScalarSides(ctx) ==
  {<<ExprRetSingle(l), ExprRetSingle(r)>> :
     l \in Uints(ctx), r \in Uints(ctx) \cup Tmps(ctx)}
  \cup {<<ExprRetSingle(l), ExprRetSingle(l)>> : l \in Scalars(ctx) \ Uints(ctx)}
  \cup {<<ExprRetSingle(l), ExprRetSingleLiteral(k)>> : l \in Uints(ctx), k \in Lits(ctx)}
  \cup {<<ExprRetSingle(l), ExprRetSingle(r)>> : l \in Structs(ctx), r \in Structs(ctx)}

NullKilledSides(ctx) ==
  LET x == ExprRetSingle(MinOf(Uints(ctx)))
      y == ExprRetSingle(MinOf(Uints(ctx) \ {MinOf(Uints(ctx))}))
      k == ExprRetCtxKilled("Revert")
      e == ExprRetCtxKilled("Ended")
      l == ExprRetSingleLiteral(MinOf(Lits(ctx)))
  IN  {<<ExprRetNull, x>>, <<x, ExprRetNull>>, <<k, x>>, <<x, k>>,
       <<ExprRetNull, k>>, <<k, ExprRetNull>>, <<ExprRetNull, ExprRetNull>>,
       <<ExprRetNull, l>>, <<ExprRetMulti(<<x, l>>), ExprRetNull>>,
       <<k, e>>, <<e, k>>, <<l, e>>, <<e, ExprRetMulti(<<x, l>>)>>,
       <<ExprRetMulti(<<x, y>>), ExprRetMulti(<<k, l>>)>>,
       <<ExprRetMulti(<<x, y>>), ExprRetMulti(<<l, k>>)>>}

TupleSides(ctx) ==
  LET x == ExprRetSingle(MinOf(Uints(ctx)))
      y == ExprRetSingle(MinOf(Uints(ctx) \ {MinOf(Uints(ctx))}))
      l == ExprRetSingleLiteral(MinOf(Lits(ctx)))
  IN  {<<ExprRetMulti(<<x, y>>), ExprRetMulti(<<l, x>>)>>,
       <<ExprRetMulti(<<x, y>>), l>>,
       <<x, ExprRetMulti(<<l, y>>)>>,
       <<ExprRetMulti(<<x, y>>), ExprRetMulti(<<l>>)>>,
       <<ExprRetMulti(<<x>>), ExprRetMulti(<<l, y>>)>>,
       <<ExprRetMulti(<<x, y>>), ExprRetMulti(<<x>>)>>,
       <<ExprRetMulti(<<x, y>>), ExprRetMulti(<<y, x>>)>>,
       <<ExprRetMulti(<<x>>), ExprRetMulti(<<y>>)>>}

UnsupportedSides(ctx) ==
  LET x == ExprRetSingle(MinOf(Uints(ctx)))
      l == ExprRetSingleLiteral(MinOf(Lits(ctx)))
  IN  {<<l, x>>, <<l, l>>, <<l, ExprRetMulti(<<x>>)>>,
       <<ExprRetMulti(<<x, l>>), x>>}

Sides(ctx) ==
  ScalarSides(ctx) \cup NullKilledSides(ctx) \cup TupleSides(ctx)
    \cup UnsupportedSides(ctx)

\* the bodies of the while loops
X == <<"x">>
Y == <<"y">>
F == <<"f">>
Bodies ==
  {<<>>,
   <<StmtAssign(X, ExprLit(7))>>,
   <<StmtAssign(X, ExprInc(X))>>,
   <<StmtAssign(X, ExprVar(Y))>>,
   <<StmtAssign(F, ExprVar(F))>>,
   <<StmtAssign(X, ExprLit(7)), StmtRevert>>,
   <<StmtAssign(Y, ExprVar(X)), StmtAssign(X, ExprInc(X))>>}

LiveLeaves == {c \in 1..Len(ctxs) : ctxs[c].child = <<>> /\ ctxs[c].killed = <<>>}

Running == ret.status # "Panic"

TheGraph == Graph(nodes, ctxs, edges, errs)

Commit(fn, r) ==
  /\ nodes' = r.g.nodes
  /\ ctxs' = r.g.ctxs
  /\ edges' = r.g.edges
  /\ errs' = r.g.errs
  /\ ret' = Ret(fn, r.status, r.err, r.val)

\* one call of match_assign_sides by the evaluation of an assignment
call_match_assign_sides ==
  /\ Running
  /\ Len(nodes) <= MaxNodes
  /\ \E ctx \in LiveLeaves, loc \in Locs, reuse \in BOOLEAN :
       \E sides \in Sides(ctx) :
         /\ input' = [fn |-> "match_assign_sides", ctx |-> ctx, loc |-> loc,
                      lhs |-> sides[1], rhs |-> sides[2], reuse |-> reuse]
         /\ Commit("match_assign_sides",
                   match_assign_sides(TheGraph, ctx, loc, sides[1], sides[2], reuse))

\* the evaluation of  v + 1  in a live context leaves a temporary behind
eval_inc ==
  /\ Running
  /\ Len(nodes) <= MaxNodes
  /\ \E ctx \in LiveLeaves, loc \in Locs :
       /\ Cardinality(Tmps(ctx)) < MaxTmps
       /\ \E v \in Uints(ctx) :
            /\ input' = [fn |-> "eval_inc", ctx |-> ctx, loc |-> loc, var |-> v]
            /\ LET r == eval_expr(TheGraph, ctx, loc, ExprInc(nodes[v].name))
               IN  Commit("eval_inc",
                          Res([r.g EXCEPT !.ctxs = push_expr(@, ctx, r.val)],
                              "Ok", "", r.val))

\* one while statement
call_while_loop ==
  /\ Running
  /\ Len(nodes) <= MaxNodes
  /\ Len(ctxs) < MaxCtxs
  /\ \E ctx \in LiveLeaves, loc \in Locs, reuse \in BOOLEAN, body \in Bodies :
       /\ input' = [fn |-> "while_loop", ctx |-> ctx, loc |-> loc, body |-> body,
                    reuse |-> reuse]
       /\ Commit("while_loop", while_loop(TheGraph, loc, ctx, body, reuse))

Next == call_match_assign_sides \/ eval_inc \/ call_while_loop

Spec == Init /\ [][Next]_vars

(***************************************************************************)
(* Properties of the assignment engine and of the loop abstraction.        *)
(***************************************************************************)
IsScalarCall(inp) ==
  /\ inp.fn = "match_assign_sides"
  /\ inp.lhs.tag = "Single"
  /\ inp.rhs.tag \in {"Single", "SingleLiteral"}

\* the operands assign receives for the call inp in the graph ns, cs
LhsOf(ns, cs, inp) == latest_version_or_inherited_in_ctx(ns, cs, inp.lhs.node, inp.ctx)
RhsOf(ns, cs, inp) == latest_version_or_inherited_in_ctx(ns, cs, inp.rhs.node, inp.ctx)

\* the provisional bound of the call inp references the left operand
SelfReferential(ns, cs, inp) ==
  /\ ~(ns[LhsOf(ns, cs, inp)].is_struct /\ ns[RhsOf(ns, cs, inp)].is_struct)
  /\ depends_on(cast_from(ns, RhsOf(ns, cs, inp), LhsOf(ns, cs, inp)),
                ElemReference(RhsOf(ns, cs, inp)), LhsOf(ns, cs, inp), {})

\* the value the last scalar assignment left on the stack of its context
Assigned == ctxs[input.ctx].expr_ret_stack[Len(ctxs[input.ctx].expr_ret_stack)].node
AssignedNext == ctxs'[input'.ctx].expr_ret_stack[Len(ctxs'[input'.ctx].expr_ret_stack)].node

\* C1: an assignment whose right-hand bound transitively references the
\* pre-assignment version of the left variable (x = x + 1) succeeds with a
\* version of the left variable that did not exist before the call, whose
\* previous version is the pre-assignment one, and whose attached Range, the
\* right operand's version, does not depend on the new version itself.
C1_SelfReferenceForcedAdvance ==
  [][(IsScalarCall(input') /\ SelfReferential(nodes, ctxs, input'))
       => /\ ret'.status = "Ok"
          /\ AssignedNext > Len(nodes)
          /\ nodes'[AssignedNext].prev = LhsOf(nodes, ctxs, input')
          /\ default_range(nodes'[AssignedNext].ty) # <<>>
               => /\ nodes'[AssignedNext].range # <<>>
                  /\ nodes'[AssignedNext].range[1].min
                       = ElemReference(RhsOf(nodes, ctxs, input'))
                  /\ nodes'[AssignedNext].range[1].max
                       = ElemReference(RhsOf(nodes, ctxs, input'))
          /\ nodes'[AssignedNext].range # <<>>
               => /\ ~depends_on(nodes', nodes'[AssignedNext].range[1].min,
                                 AssignedNext, {})
                  /\ ~depends_on(nodes', nodes'[AssignedNext].range[1].max,
                                 AssignedNext, {})]_vars

\* x = x + 1 has run: the new version's bound reaches the version before it
\* through the temporary, and not the new version
C1_Witness ==
  /\ IsScalarCall(input) /\ ret.status = "Ok"
  /\ nodes[RhsOf(nodes, ctxs, input)].prev # 0
  /\ nodes[nodes[RhsOf(nodes, ctxs, input)].prev].tmp_of # <<>>
  /\ nodes[Assigned].prev # 0
  /\ nodes[Assigned].range # <<>>
  /\ depends_on(nodes, nodes[Assigned].range[1].min, nodes[Assigned].prev, {})
  /\ ~depends_on(nodes, nodes[Assigned].range[1].min, Assigned, {})

\* some left field has no right field with its trailing name segment
StructMismatch(ns, cs, inp) ==
  /\ ns[LhsOf(ns, cs, inp)].is_struct /\ ns[RhsOf(ns, cs, inp)].is_struct
  /\ \E lf \in 1..Len(struct_to_fields(ns, LhsOf(ns, cs, inp))) :
       \A rf \in 1..Len(struct_to_fields(ns, RhsOf(ns, cs, inp))) :
         last_segment(ns[struct_to_fields(ns, LhsOf(ns, cs, inp))[lf]].name)
           # last_segment(ns[struct_to_fields(ns, RhsOf(ns, cs, inp))[rf]].name)

\* C2: a struct assignment in which some left field has no right field of the
\* same trailing name fails with a mismatch error and leaves every variable
\* version, Range, dependency and relation as it was.
C2_StructMismatchMutatesNothing ==
  [][(IsScalarCall(input') /\ StructMismatch(nodes, ctxs, input'))
       => /\ ret'.status = "Err"
          /\ nodes' = nodes
          /\ edges' = edges]_vars

\* the loop-body context of the last while_loop and its successor
LoopSubctx == ctxs[input.ctx].child[1]
LoopSuccessor == ctxs[LoopSubctx].child[1]

LoopReturned ==
  /\ input.fn = "while_loop" /\ ret.status = "Ok"
  /\ ctxs[input.ctx].child # <<>>
  /\ ctxs[LoopSubctx].child # <<>>

\* the variables the loop body declared that shadow one of the enclosing context
Shadowing ==
  {n \in 1..Len(nodes) :
     /\ nodes[n].ctx = LoopSubctx
     /\ \E m \in 1..Len(nodes) :
          nodes[m].name = nodes[n].name /\ nodes[m].ctx \in Ancestors(ctxs, input.ctx)}

\* the latest version of the variable of n that the successor context sees
PostLoop(n) ==
  latest_version_or_inherited_in_ctx(
    nodes, ctxs, var_by_name(nodes, ctxs, LoopSuccessor, nodes[n].name)[1], LoopSuccessor)

HasDefaultDomain(v) ==
  /\ default_range(nodes[v].ty) # <<>>
  /\ nodes[v].range # <<>>
  /\ nodes[v].range[1].min = default_range(nodes[v].ty)[1].min
  /\ nodes[v].range[1].max = default_range(nodes[v].ty)[1].max

Supported(lhs, rhs) ==
  \/ lhs.tag = "Null" \/ rhs.tag = "Null"
  \/ lhs.tag = "CtxKilled" \/ rhs.tag = "CtxKilled"
  \/ lhs.tag \in {"Single", "Multi"} /\ rhs.tag \in {"Single", "SingleLiteral", "Multi"}

\* C4: on a pairing it does not implement (a single literal on the left-hand
\* side), match_assign_sides aborts the analysis; it does not return Ok, also
\* when the pairing appears as an element of a tuple.
C4_UnsupportedPairingAborts ==
  /\ (input.fn = "match_assign_sides" /\ ~Supported(input.lhs, input.rhs))
       => ret.status = "Panic"
  /\ (input.fn = "match_assign_sides" /\ input.lhs.tag = "Multi"
        /\ input.rhs.tag \in {"Single", "SingleLiteral"}
        /\ \E i \in 1..Len(input.lhs.items) : input.lhs.items[i].tag = "SingleLiteral")
       => ret.status # "Ok"

C4_Witness ==
  /\ input.fn = "match_assign_sides"
  /\ input.lhs.tag = "SingleLiteral" /\ input.rhs.tag = "Single"
  /\ ret.status = "Panic"

(***************************************************************************)
(* The bound history reporter (bounds_analyzer.rs), run on the version     *)
(* chain of one variable; each version carries a Range or none.            *)
(***************************************************************************)
MaxChain == 4

RangeA == default_range(Ty("Uint", 8))[1]
RangeB == SolcRange(ElemConcrete(Concrete("Uint", 8, <<1>>)),
                    ElemConcrete(Concrete("Uint", 8, <<5>>)), {})

OptRanges == {<<>>, <<RangeA>>, <<RangeB>>}

Chains == UNION {[1..n -> OptRanges] : n \in 1..MaxChain}

\* version i of the chain sits at source location i
ChainNodes(ch) ==
  Mat([i \in 1..Len(ch) |->
         [ContextVar(<<"x">>, Ty("Uint", 8), ch[i], 1, i) EXCEPT !.prev = i - 1]],
      Len(ch))

\* ContextVarNode::next_version
next_version(ns, n) ==
  IF next_versions(ns, n) = {} THEN <<>> ELSE <<MinOf(next_versions(ns, n))>>

\* the while loop of bounds_for_var_node
RECURSIVE bound_changes(_, _, _, _)
bound_changes(ns, curr, curr_range, changes) ==
  IF next_version(ns, curr) = <<>> THEN changes
  ELSE IF ns[next_version(ns, curr)[1]].range # <<>>
  THEN bound_changes(ns, next_version(ns, curr)[1],
                     ns[next_version(ns, curr)[1]].range[1],
                     IF ns[next_version(ns, curr)[1]].range[1] # curr_range
                     THEN Append(changes, <<ns[next_version(ns, curr)[1]].loc,
                                            ns[next_version(ns, curr)[1]].range[1]>>)
                     ELSE changes)
  ELSE bound_changes(ns, next_version(ns, curr)[1], curr_range, changes)

\* BoundAnalyzer::bounds_for_var_node
bounds_for_var_node(ns, var_name, cvar, report_config) ==
  [var_name |-> var_name,
   var_def |-> <<ns[cvar].loc, ns[cvar].range>>,
   bound_changes |-> IF ns[cvar].range # <<>>
                     THEN bound_changes(ns, cvar, ns[cvar].range[1], <<>>)
                     ELSE <<>>,
   report_config |-> report_config]

InitBounds ==
  /\ nodes \in {ChainNodes(ch) : ch \in Chains}
  /\ ctxs = <<Context(0, "Fn")>>
  /\ edges = {}
  /\ errs = <<>>
  /\ ret = NoRet
  /\ input = [fn |-> "none"]

call_bounds_for_var_node ==
  \E cvar \in 1..Len(nodes), eval_bounds \in BOOLEAN :
    /\ input' = [fn |-> "bounds_for_var_node", cvar |-> cvar]
    /\ ret' = Ret("bounds_for_var_node", "Ok", "",
                  bounds_for_var_node(nodes, nodes[cvar].name, cvar,
                                      [eval_bounds |-> eval_bounds, show_tmps |-> FALSE]))
    /\ UNCHANGED <<nodes, ctxs, edges, errs>>

NextBounds == call_bounds_for_var_node

SpecBounds == InitBounds /\ [][NextBounds]_vars

\* the versions from cvar to the end of its chain
RECURSIVE ChainFrom(_, _)
ChainFrom(ns, n) ==
  IF next_versions(ns, n) = {} THEN <<n>>
  ELSE <<n>> \o ChainFrom(ns, MinOf(next_versions(ns, n)))

\* one entry for each version after the first that carries a Range different
\* from what the version just before it carries
RECURSIVE ChangesOf(_, _, _)
ChangesOf(ns, chain, i) ==
  IF i > Len(chain) THEN <<>>
  ELSE (IF ns[chain[i]].range # <<>> /\ ns[chain[i]].range # ns[chain[i - 1]].range
        THEN <<<<ns[chain[i]].loc, ns[chain[i]].range[1]>>>>
        ELSE <<>>)
       \o ChangesOf(ns, chain, i + 1)

\* C5: for every version chain V0..Vn of the requested variable, whether or not
\* its versions carry a Range, bound_changes holds, in chain order and with
\* Vi's location, exactly one entry for each i >= 1 whose Range differs from
\* the Range of V(i-1), and nothing else.
C5_OneEntryPerChange ==
  input.fn = "bounds_for_var_node" =>
    ret.val.bound_changes = ChangesOf(nodes, ChainFrom(nodes, input.cvar), 2)

(***************************************************************************)
(* Byte literals and the common tail of the literal constructors.          *)
(***************************************************************************)
\* one more than the index of the last byte of h that is not zero, 0 if none
LogicalLength(h) ==
  IF \A i \in 1..Len(h) : h[i] = 0 THEN 0
  ELSE CHOOSE i \in 1..Len(h) : h[i] # 0 /\ \A j \in (i + 1)..Len(h) : h[j] = 0

\* C11: hex_literals on text that decodes to n bytes: for n <= 32 a fixed byte
\* block whose 32-byte buffer holds the bytes at its front and zero elsewhere,
\* with logical length one more than the index of the last non-zero byte (0 for
\* empty or all-zero input); for n > 32 a dynamic byte sequence of exactly the
\* input bytes.
C11_HexLiteralsPadded ==
  (ret.op = "hex_literals" /\ hex_decode(input.hex).ok) =>
    /\ ret.status = "Ok"
    /\ Len(hex_decode(input.hex).val) <= 32 =>
         /\ LitConc.kind = "Bytes"
         /\ Len(LitConc.val) = 32
         /\ \A i \in 1..32 :
              LitConc.val[i] = IF i <= Len(hex_decode(input.hex).val)
                               THEN hex_decode(input.hex).val[i] ELSE 0
         /\ LitConc.size = LogicalLength(hex_decode(input.hex).val)
    /\ Len(hex_decode(input.hex).val) > 32 =>
         /\ LitConc.kind = "DynBytes"
         /\ LitConc.val = hex_decode(input.hex).val
    /\ input.hex = <<"7", "b", "f", "f">> =>
         LitConc.size = 2 /\ LitConc.val[1] = 123 /\ LitConc.val[2] = 255
    /\ input.hex = <<"0", "0">> => LitConc.size = 0

C11_Witness ==
  /\ ret.op = "hex_literals" /\ ret.status = "Ok"
  /\ input.hex = <<"0", "1", "0", "0", "0", "2", "0", "0">>
  /\ LitConc.kind = "Bytes" /\ LitConc.size = 3
  /\ LitConc.val[3] = 2 /\ LitConc.val[4] = 0 /\ LitConc.val[32] = 0

LiteralConstructors ==
  {"number_literal", "rational_number_literal", "hex_num_literal", "hex_literals",
   "address_literal", "string_literal", "bool_literal"}

\* node n is a constant variable registered in ctx
RegisteredConstant(ns, eg, n, ctx) ==
  /\ ns[n].ctx = ctx
  /\ ns[n].prev = 0
  /\ ns[n].range # <<>>
  /\ ns[n].range[1].min.tag = "Concrete"
  /\ ns[n].range[1].max = ns[n].range[1].min
  /\ [from |-> n, to |-> ctx, kind |-> "Variable"] \in eg

\* C12: every literal constructor that succeeds grows the expression-result
\* stack of the owning context by exactly one entry, a single-literal ExprRet
\* of one newly created constant ContextVar registered in that context; one
\* that fails with a parse error pushes nothing and registers no variable.
C12_OneLiteralPerConstructor ==
  [][/\ ret'.op \in LiteralConstructors
     /\ ret'.status = "Ok" =>
          /\ nodes' = Append(nodes, nodes'[Len(nodes')])
          /\ RegisteredConstant(nodes', edges', Len(nodes'), LitCtx)
          /\ edges' = edges \cup {[from |-> Len(nodes'), to |-> LitCtx,
                                   kind |-> "Variable"]}
          /\ ctxs' = [ctxs EXCEPT ![LitCtx].expr_ret_stack =
                        Append(@, ExprRetSingleLiteral(Len(nodes')))]
     /\ ret'.status # "Ok" =>
          /\ ret'.status = "Err" /\ ret'.err = "ParseError"
          /\ UNCHANGED <<nodes, ctxs, edges>>]_vars

C12_Witness ==
  /\ ret.op = "address_literal" /\ ret.status = "Ok"
  /\ Len(nodes) = 2
  /\ RegisteredConstant(nodes, edges, 2, LitCtx)
  /\ ctxs[LitCtx].expr_ret_stack = <<ExprRetSingleLiteral(1), ExprRetSingleLiteral(2)>>

(***************************************************************************)
(* match_assign_sides on null and killed sides.                            *)
(***************************************************************************)
IsKilledCall(inp) ==
  /\ inp.fn = "match_assign_sides"
  /\ inp.lhs.tag = "CtxKilled" \/ inp.rhs.tag = "CtxKilled"

IsNullCall(inp) ==
  /\ inp.fn = "match_assign_sides"
  /\ inp.lhs.tag = "Null" \/ inp.rhs.tag = "Null"

\* the kinds the killed sides of the call carry
KilledKinds(inp) ==
  {s.kind : s \in {t \in {inp.lhs, inp.rhs} : t.tag = "CtxKilled"}}

\* the context of the call has just been killed at the call's location with
\* one of the given kinds, and no variable was touched
KillPropagated(inp, kinds) ==
  /\ ctxs[inp.ctx].killed = <<>>
  /\ ctxs'[inp.ctx].killed # <<>>
  /\ ctxs'[inp.ctx].killed[1].loc = inp.loc
  /\ ctxs'[inp.ctx].killed[1].kind \in kinds
  /\ ctxs'[inp.ctx].expr_ret_stack = ctxs[inp.ctx].expr_ret_stack
  /\ nodes' = nodes /\ edges' = edges

\* C13: a killed side, whatever the other side is, has the kill
\* propagated to the context with its reason, and no scalar assignment is made.
C13_KilledAlwaysPropagates ==
  [][IsKilledCall(input') =>
       /\ ret'.status = "Ok"
       /\ KillPropagated(input', KilledKinds(input'))]_vars

\* C14: a call of match_assign_sides with a null side is a no-op: it returns
\* Ok, creates no variable version, attaches no Range, adds no edge and pushes
\* nothing on the expression-result stack of the context.
C14_NullIsNoOp ==
  [][IsNullCall(input') =>
       /\ ret'.status = "Ok"
       /\ ret'.val = ExprRetNull
       /\ UNCHANGED <<nodes, ctxs, edges, errs>>]_vars

\* a null side met a tuple holding a literal on the left, and nothing happened
C14_Witness ==
  /\ input.fn = "match_assign_sides" /\ ret.op = "match_assign_sides"
  /\ input.lhs.tag = "Multi" /\ input.rhs.tag = "Null"
  /\ ret.status = "Ok"
  /\ nodes = InitNodes /\ edges = {}
  /\ ctxs[input.ctx].expr_ret_stack = <<>>

(***************************************************************************)
(* match_assign_sides on tuples of scalars.                                *)
(***************************************************************************)
IsTupleCall(inp) ==
  /\ inp.fn = "match_assign_sides"
  /\ inp.lhs.tag = "Multi" /\ inp.rhs.tag = "Multi"
  /\ \A i \in 1..Len(inp.lhs.items) : inp.lhs.items[i].tag = "Single"
  /\ \A i \in 1..Len(inp.rhs.items) :
       inp.rhs.items[i].tag \in {"Single", "SingleLiteral"}

\* every left element against the first right element, then every left
\* element against the second, and so on
RightMajor(lhs, rhs) ==
  Mat([k \in 1..(Len(lhs) * Len(rhs)) |->
         <<lhs[((k - 1) % Len(lhs)) + 1], rhs[((k - 1) \div Len(lhs)) + 1]>>],
      Len(lhs) * Len(rhs))

\* the i-th left element against the i-th right element
Pairwise(lhs, rhs) == Mat([k \in 1..Len(lhs) |-> <<lhs[k], rhs[k]>>], Len(lhs))

\* the graph after the scalar assignments of pairs[k..], one after the other,
\* each resolving its sides when its turn comes
RECURSIVE AssignInTurn(_, _, _, _, _, _)
AssignInTurn(g, ctx, loc, pairs, k, reuse) ==
  IF k > Len(pairs) THEN g
  ELSE AssignInTurn(
         push_assigned(
           assign(g, loc,
                  latest_version_or_inherited_in_ctx(g.nodes, g.ctxs,
                                                     pairs[k][1].node, ctx),
                  latest_version_or_inherited_in_ctx(g.nodes, g.ctxs,
                                                     pairs[k][2].node, ctx),
                  ctx, reuse),
           ctx).g,
         ctx, loc, pairs, k + 1, reuse)

\* the step left the graph that the scalar assignments of pairs leave
RanInTurn(inp, pairs) ==
  /\ ret'.status = "Ok"
  /\ Graph(nodes', ctxs', edges', errs')
       = AssignInTurn(TheGraph, inp.ctx, inp.loc, pairs, 1, inp.reuse)

\* the versions of the variable of first version root that the step created
NewVersions(root) ==
  {n \in (Len(nodes) + 1)..Len(nodes') : first_version(nodes', n) = root}

\* after the step the latest version of the left variable l is bound to a
\* version of the right variable r
BoundTo(l, r) ==
  /\ nodes'[latest_version(nodes', l)].range # <<>>
  /\ nodes'[latest_version(nodes', l)].range[1].min.tag = "Reference"
  /\ nodes'[latest_version(nodes', l)].range[1].max
       = nodes'[latest_version(nodes', l)].range[1].min
  /\ first_version(nodes', nodes'[latest_version(nodes', l)].range[1].min.node) = r

\* no variable stands on both sides, nor twice on the left
Disjoint(inp) ==
  /\ \A i \in 1..Len(inp.lhs.items), j \in 1..Len(inp.rhs.items) :
       inp.lhs.items[i].node # inp.rhs.items[j].node
  /\ \A i, j \in 1..Len(inp.lhs.items) :
       inp.lhs.items[i].node = inp.lhs.items[j].node => i = j

UnequalArity(inp) == IsTupleCall(inp) /\ Len(inp.lhs.items) # Len(inp.rhs.items)

EqualArity(inp) == IsTupleCall(inp) /\ Len(inp.lhs.items) = Len(inp.rhs.items)

\* the entries the step pushed on the stack of the call's context
Pushed(inp) ==
  SubSeq(ctxs'[inp.ctx].expr_ret_stack,
         Len(ctxs[inp.ctx].expr_ret_stack) + 1, Len(ctxs'[inp.ctx].expr_ret_stack))

\* the variable version a bound refers to, through the casts wrapped around it
RECURSIVE Referenced(_)
Referenced(e) ==
  IF e.tag = "Cast" THEN Referenced(e.args[1])
  ELSE IF e.tag = "Reference" THEN e.node ELSE 0

\* C16: tuple = tuple with equal arity n of scalars performs exactly n scalar
\* assignments, the i-th left element receiving the i-th right element and no
\* other, in index order, each side resolved to its latest version visible in
\* the context when its own assignment runs.
C16_EqualArityPairwise ==
  [][EqualArity(input') =>
       /\ RanInTurn(input', Pairwise(input'.lhs.items, input'.rhs.items))
       /\ Len(Pushed(input')) = Len(input'.lhs.items)
       /\ \A i \in 1..Len(input'.lhs.items) :
            /\ Pushed(input')[i].tag = "Single"
            /\ first_version(nodes', Pushed(input')[i].node)
                 = first_version(nodes, input'.lhs.items[i].node)
            /\ nodes'[Pushed(input')[i].node].range # <<>>
            /\ first_version(nodes',
                             Referenced(nodes'[Pushed(input')[i].node].range[1].min))
                 = first_version(nodes, input'.rhs.items[i].node)]_vars

\* (x, y) = (y, x) has run: x took the old y, then y took the new x
C16_Witness ==
  /\ input.fn = "match_assign_sides" /\ ret.status = "Ok"
  /\ EqualArity(input) /\ Len(input.lhs.items) = 2
  /\ input.lhs.items[1] = input.rhs.items[2]
  /\ input.lhs.items[2] = input.rhs.items[1]
  /\ ~input.reuse
  /\ Len(ctxs[input.ctx].expr_ret_stack) = 2
  /\ nodes[ctxs[input.ctx].expr_ret_stack[2].node].range[1].min
       = ElemReference(ctxs[input.ctx].expr_ret_stack[1].node)

(***************************************************************************)
(* Scalar assignment: what the new left version keeps and what it returns. *)
(***************************************************************************)
\* a scalar call whose operands are no structs and that succeeded in the step
ScalarAssigned(inp) ==
  /\ IsScalarCall(inp)
  /\ ~nodes[LhsOf(nodes, ctxs, inp)].is_struct
  /\ ret'.status = "Ok"

SameDomain(inp) ==
  nodes[LhsOf(nodes, ctxs, inp)].ty = nodes[RhsOf(nodes, ctxs, inp)].ty

\* a version without its Range and without its place in the version chain
Unversioned(v) ==
  [v EXCEPT !.range = <<>>, !.prev = 0, !.loc = 0, !.ctx = 0, !.inherited = FALSE]

\* a version without its Range, its place in the chain and its dependencies
Undependent(v) == [Unversioned(v) EXCEPT !.tmp_of = <<>>, !.dep_on = <<>>]

PushedOneSingle(inp) == Len(Pushed(inp)) = 1 /\ Pushed(inp)[1].tag = "Single"

\* the value is a version created by the step, next after the left operand
NewLeftVersion(inp) ==
  /\ AssignedNext > Len(nodes)
  /\ nodes'[AssignedNext].prev = LhsOf(nodes, ctxs, inp)

\* C18: every successful scalar assignment returns a single value, the newly
\* created version of the left variable, whose previous version is the latest
\* left version from before the assignment.
C18_ReturnsNewLeftVersion ==
  [][(IsScalarCall(input') /\ ret'.status = "Ok") =>
       /\ PushedOneSingle(input')
       /\ NewLeftVersion(input')]_vars

\* C18: every successful scalar assignment returns a single value.  Between
\* two structs it is the left struct variable itself, which gets no new
\* version.  Otherwise it is the version of the left variable that carries the
\* assigned bounds: a newly created version whose previous version is the
\* latest left version from before the assignment, or that latest version
\* itself when the bounds do not depend on it and the advance reused it.
C18_ReturnsAssignedLeftVersion ==
  [][(IsScalarCall(input') /\ ret'.status = "Ok") =>
       /\ PushedOneSingle(input')
       /\ nodes[LhsOf(nodes, ctxs, input')].is_struct
            /\ nodes[RhsOf(nodes, ctxs, input')].is_struct =>
            /\ AssignedNext = LhsOf(nodes, ctxs, input')
            /\ next_versions(nodes', AssignedNext) = {}
       /\ ~(nodes[LhsOf(nodes, ctxs, input')].is_struct
            /\ nodes[RhsOf(nodes, ctxs, input')].is_struct) =>
            /\ \/ NewLeftVersion(input')
               \/ /\ AssignedNext = LhsOf(nodes, ctxs, input')
                  /\ input'.reuse /\ ~SelfReferential(nodes, ctxs, input')
            /\ (~input'.reuse \/ SelfReferential(nodes, ctxs, input')
                  \/ nodes[LhsOf(nodes, ctxs, input')].ctx # input'.ctx)
                 => NewLeftVersion(input')
            /\ default_range(nodes'[AssignedNext].ty) # <<>> =>
                 /\ nodes'[AssignedNext].range # <<>>
                 /\ Referenced(nodes'[AssignedNext].range[1].min)
                      = RhsOf(nodes, ctxs, input')]_vars

\* x = 5 has run and left the new x, bound to the literal, on the stack
C18_Witness ==
  /\ IsScalarCall(input) /\ ret.status = "Ok" /\ input.rhs.tag = "SingleLiteral"
  /\ ctxs[input.ctx].expr_ret_stack = <<ExprRetSingle(Len(InitNodes) + 1)>>
  /\ nodes[Assigned].prev = input.lhs.node
  /\ nodes[Assigned].range[1].min = ElemReference(input.rhs.node)

(***************************************************************************)
(* Version history and context ownership.                                  *)
(***************************************************************************)
\* the versions that have a next version
Superseded(ns) == {n \in 1..Len(ns) : next_versions(ns, n) # {}}

\* C19: a superseded version is immutable history: once a version has a next
\* version, no assignment and no loop widening writes its type, flags,
\* dependency list or Range again.  A scalar assignment writes the right
\* operand, by the cast, while that is the latest of its chain, and otherwise
\* only the left version it returns.
C19_SupersededImmutable ==
  [][/\ \A n \in Superseded(nodes) : nodes'[n] = nodes[n]
     /\ ScalarAssigned(input') =>
          \A n \in 1..Len(nodes) :
            n # AssignedNext =>
              nodes'[n] = cast_from(nodes, RhsOf(nodes, ctxs, input'),
                                    LhsOf(nodes, ctxs, input'))[n]]_vars

\* the literal was superseded by an earlier assignment and is as it was
\* created; y has just been assigned from x, a variable of another width, which
\* was cast while it was the latest of its chain
C19_Witness ==
  /\ IsScalarCall(input) /\ ret.status = "Ok"
  /\ 4 \in Superseded(nodes) /\ nodes[4] = InitNodes[4]
  /\ nodes[Assigned].prev = 2
  /\ nodes[Assigned].range[1].min = ElemReference(1)
  /\ nodes[1].ty = Ty("Uint", 16)
  /\ nodes[1].range[1].min.tag = "Cast"
  /\ 1 \in Superseded(nodes)

\* the contexts in which the step ran: the context of an assignment or
\* increment, and the contexts a while loop forked
Acting ==
  IF input'.fn = "while_loop" THEN (Len(ctxs) + 1)..Len(ctxs') ELSE {input'.ctx}

\* C20: a context's variables are never mutated by a descendant: a step run in
\* a child context creates its new versions in the child, and the versions the
\* ancestors own, their Ranges included, stay as they were.
C20_AncestorsUntouched ==
  [][/\ \A n \in 1..Len(nodes) : nodes[n].ctx \notin Acting => nodes'[n] = nodes[n]
     /\ \A n \in (Len(nodes) + 1)..Len(nodes') : nodes'[n].ctx \in Acting]_vars

(***************************************************************************)
(* Scalar assignment: failures of its bound updates and of its relations.  *)
(***************************************************************************)
\* the bounds could not be attached to the version the step returned: it has
\* no Range and its declared type has no default domain to fall back on
BoundUpdateFailed(inp) ==
  /\ ScalarAssigned(inp)
  /\ nodes'[AssignedNext].range = <<>>
  /\ default_range(nodes'[AssignedNext].ty) = <<>>

\* the step created a version of the right operand, next after the latest one
RhsForceAdvanced(inp) ==
  \E n \in (Len(nodes) + 1)..Len(nodes') :
    /\ n # AssignedNext
    /\ nodes'[n].name = nodes[RhsOf(nodes, ctxs, inp)].name
    /\ nodes'[n].prev \in {RhsOf(nodes, ctxs, inp), AssignedNext}

\* C21: a failed bound update inside a scalar assignment is recorded as an
\* error of the analysis and does not unwind the assignment: the call still
\* force-advances the right operand and returns the new left version.
C21_FailedBoundRecorded ==
  [][BoundUpdateFailed(input') =>
       /\ Len(errs') > Len(errs)
       /\ RhsForceAdvanced(input')
       /\ AssignedNext > Len(nodes)]_vars

(***************************************************************************)
(* The analysis of a second function body, entered by an internal or by an *)
(* external call:                                                          *)
(*   function g() returns (uint8 r)                                        *)
(* declaring  uint8 x;  uint16 y (storage);  a function-typed f;  the      *)
(* literal 5;  struct s3 {a};  struct s1 {a, b},  and holding a            *)
(* return-valued variable d that no context owns.                          *)
(***************************************************************************)
MaxRetNodes == 12

RetNodes ==
  <<Declared(<<"x">>, Ty("Uint", 8), 1),
    [Declared(<<"y">>, Ty("Uint", 16), 1) EXCEPT !.is_storage = TRUE],
    Declared(<<"f">>, Ty("Func", 0), 1),
    new_from_concrete(0, 1, Concrete("Uint", 8, <<5>>), 4),
    [Declared(<<"r">>, Ty("Uint", 8), 1) EXCEPT !.is_return = TRUE],
    [Declared(<<"d">>, Ty("Uint", 8), 0) EXCEPT !.is_return = TRUE],
    [Declared(<<"s3">>, Ty("Struct", 0), 1) EXCEPT !.is_struct = TRUE],
    [Declared(<<"s3", "a">>, Ty("Uint", 8), 1) EXCEPT !.struct_of = 7],
    [Declared(<<"s1">>, Ty("Struct", 0), 1) EXCEPT !.is_struct = TRUE],
    [Declared(<<"s1", "a">>, Ty("Uint", 8), 1) EXCEPT !.struct_of = 9],
    [Declared(<<"s1", "b">>, Ty("Uint", 8), 1) EXCEPT !.struct_of = 9]>>

InitRet ==
  /\ nodes = RetNodes
  /\ \E kind \in {"Fn", "ExtFnCall"} : ctxs = <<Context(0, kind)>>
  /\ edges = {}
  /\ errs = <<>>
  /\ ret = NoRet
  /\ input = [fn |-> "none"]

\* the pairs of sides the assignments of this body hand over: scalars from
\* scalars, from the literal, from the two return values and from f; f from
\* a scalar; d from itself; the two structs from each other
RetSides ==
  {<<ExprRetSingle(l), ExprRetSingle(r)>> : l \in {1, 2}, r \in {1, 2, 3, 5, 6}}
  \cup {<<ExprRetSingle(l), ExprRetSingleLiteral(4)>> : l \in {1, 2}}
  \cup {<<ExprRetSingle(5), ExprRetSingle(1)>>, <<ExprRetSingle(3), ExprRetSingle(1)>>,
        <<ExprRetSingle(7), ExprRetSingle(9)>>, <<ExprRetSingle(9), ExprRetSingle(7)>>,
        <<ExprRetSingle(9), ExprRetSingle(9)>>, <<ExprRetSingle(6), ExprRetSingle(6)>>}

\* one call of match_assign_sides by the evaluation of an assignment of g;
\* a failed assignment ends the evaluation of the path
assign_in_fn ==
  /\ ret.status \notin {"Panic", "Err"}
  /\ Len(nodes) <= MaxRetNodes
  /\ \E ctx \in LiveLeaves, loc \in Locs, reuse \in BOOLEAN :
       \E sides \in RetSides :
         /\ input' = [fn |-> "match_assign_sides", ctx |-> ctx, loc |-> loc,
                      lhs |-> sides[1], rhs |-> sides[2], reuse |-> reuse]
         /\ Commit("match_assign_sides",
                   match_assign_sides(TheGraph, ctx, loc, sides[1], sides[2], reuse))

NextRet == assign_in_fn

SpecRet == InitRet /\ [][NextRet]_vars

\* the return-assignment relations the step recorded
NewReturnAssigns ==
  {e \in edges' \ edges : e.kind \in {ReturnAssign(TRUE), ReturnAssign(FALSE)}}

\* a scalar call whose operands are no structs
IsNonStructCall(inp) ==
  /\ IsScalarCall(inp)
  /\ ~(nodes[LhsOf(nodes, ctxs, inp)].is_struct /\ nodes[RhsOf(nodes, ctxs, inp)].is_struct)

\* C22: in a scalar assignment whose right operand is flagged as a function
\* return value and has an owning context, a return-assignment relation from
\* the right operand to the new left version is recorded, tagged with whether
\* that context is an external call; without an owning context the assignment
\* fails with a detached-variable error; for a right operand that is no return
\* value no return-assignment relation is recorded.
C22_ReturnAssignRecorded ==
  [][IsNonStructCall(input') =>
       LET R == RhsOf(nodes, ctxs, input')
       IN  /\ (nodes[R].is_return /\ nodes[R].ctx # 0) =>
                /\ ret'.status = "Ok"
                /\ NewReturnAssigns
                     = {Edge(R, AssignedNext,
                             ReturnAssign(ctxs[nodes[R].ctx].kind = "ExtFnCall"))}
           /\ (nodes[R].is_return /\ nodes[R].ctx = 0) =>
                /\ ret'.status = "Err"
                /\ ret'.err = "GraphError: DetachedVariable"
                /\ NewReturnAssigns = {}
           /\ ~nodes[R].is_return => NewReturnAssigns = {}]_vars

\* y = r has run in a body entered by an external call: the relation from r
\* to the new version of y is tagged external
C22_Witness ==
  /\ IsScalarCall(input) /\ ret.status = "Ok"
  /\ input.lhs.node = 2 /\ input.rhs.node = 5
  /\ ctxs[1].kind = "ExtFnCall"
  /\ Edge(5, Assigned, ReturnAssign(TRUE)) \in edges
  /\ nodes[Assigned].prev = 2

(***************************************************************************)
(* The loop abstraction: one pass over the body, one successor context.    *)
(***************************************************************************)
\* the statements of body that one pass runs: those before its first revert
RECURSIVE RunOnce(_, _)
RunOnce(body, i) ==
  IF i > Len(body) \/ body[i].k = "revert" THEN 0 ELSE 1 + RunOnce(body, i + 1)

StructAssigned(inp) ==
  /\ IsScalarCall(inp)
  /\ nodes[LhsOf(nodes, ctxs, inp)].is_struct
  /\ nodes[RhsOf(nodes, ctxs, inp)].is_struct
  /\ ret'.status = "Ok"

LhsFields(inp) == struct_to_fields(nodes, LhsOf(nodes, ctxs, inp))
RhsFields(inp) == struct_to_fields(nodes, RhsOf(nodes, ctxs, inp))

\* the right fields named, by trailing segment, like the left field lf
NamedLike(inp, lf) ==
  {j \in 1..Len(RhsFields(inp)) :
     nodes[RhsFields(inp)[j]].name[Len(nodes[RhsFields(inp)[j]].name)]
       = nodes[lf].name[Len(nodes[lf].name)]}

\* the step assigned the left field lf from the right field rf: a version of
\* lf, new or lf itself, is bound to rf and has a dependency list
FieldAssigned(lf, rf) ==
  \E n \in 1..Len(nodes') :
    /\ n = lf \/ (n > Len(nodes) /\ nodes'[n].prev = lf)
    /\ nodes'[n].range # <<>>
    /\ Referenced(nodes'[n].range[1].min) = rf
    /\ Referenced(nodes'[n].range[1].max) = rf
    /\ nodes'[n].dep_on # <<>>

\* C24: in a successful struct-to-struct assignment every left field is
\* assigned from the first right field with the same trailing name segment;
\* the struct variables get no new version and no new Range; a right field
\* with no left counterpart is left as it was.
C24_FieldsAssignedStructUntouched ==
  [][StructAssigned(input') =>
       /\ \A i \in 1..Len(LhsFields(input')) :
            /\ NamedLike(input', LhsFields(input')[i]) # {}
            /\ FieldAssigned(LhsFields(input')[i],
                             RhsFields(input')[MinOf(NamedLike(input', LhsFields(input')[i]))])
       /\ \A n \in 1..Len(nodes) : nodes[n].is_struct => nodes'[n] = nodes[n]
       /\ \A n \in (Len(nodes) + 1)..Len(nodes') : ~nodes'[n].is_struct
       /\ AssignedNext = LhsOf(nodes, ctxs, input')
       /\ \A j \in 1..Len(RhsFields(input')) :
            (\A i \in 1..Len(LhsFields(input')) :
               j \notin NamedLike(input', LhsFields(input')[i]))
              => /\ nodes'[RhsFields(input')[j]] = nodes[RhsFields(input')[j]]
                 /\ next_versions(nodes', RhsFields(input')[j]) = {}]_vars

\* s3 = s1 has run with s3 {a} and s1 {a, b}: s3.a has a new version bound to
\* s1.a, s1.b has none, and s3 is the value of the assignment
C24_Witness ==
  /\ IsScalarCall(input) /\ ret.status = "Ok"
  /\ input.lhs.node = 7 /\ input.rhs.node = 9
  /\ Assigned = 7 /\ next_versions(nodes, 7) = {}
  /\ \E n \in next_versions(nodes, 8) :
       nodes[n].range # <<>> /\ nodes[n].range[1].min = ElemReference(10)
  /\ next_versions(nodes, 11) = {}
  /\ Len(nodes) = Len(RetNodes) + 2

(***************************************************************************)
(* Context kills.                                                          *)
(***************************************************************************)
Killed(cs, c) == cs[c].killed # <<>>

\* a call whose first pair of sides has a killed side and no null side:
\* the context is killed before anything is assigned
KillsFirst(inp) ==
  /\ inp.fn = "match_assign_sides"
  /\ \/ IsKilledCall(inp) /\ ~IsNullCall(inp)
     \/ /\ inp.lhs.tag = "Multi" /\ inp.rhs.tag = "Multi"
        /\ Len(inp.lhs.items) = Len(inp.rhs.items)
        /\ inp.lhs.items[1].tag # "Null"
        /\ inp.rhs.items[1].tag = "CtxKilled"

\* C25: a kill is one-way and goes downward only.  A killed context stays
\* killed, with the reason it was killed for, under every later step; when a
\* step kills a context, the contexts below it are terminal too and the
\* contexts beside and above it keep their state; and a killed context gets
\* no further Range update: none of its versions is written, it gets no new
\* version, and a call that kills its context at its first pair of sides
\* assigns nothing.
C25_KillOneWayDownward ==
  [][/\ \A c \in 1..Len(ctxs) :
          Killed(ctxs, c) =>
            /\ ctxs'[c] = ctxs[c]
            /\ \A n \in 1..Len(nodes) : nodes[n].ctx = c => nodes'[n] = nodes[n]
            /\ \A n \in (Len(nodes) + 1)..Len(nodes') : nodes'[n].ctx # c
     /\ \A c \in 1..Len(ctxs') :
          (Killed(ctxs', c) /\ (c > Len(ctxs) \/ ~Killed(ctxs, c))) =>
            /\ \A d \in Descendants(ctxs', c) : Killed(ctxs', d)
            /\ \A k \in 1..Len(ctxs) :
                 k \notin Descendants(ctxs', c) =>
                   /\ ctxs'[k].killed = ctxs[k].killed
                   /\ ctxs'[k].expr_ret_stack = ctxs[k].expr_ret_stack
     /\ KillsFirst(input') =>
          /\ Killed(ctxs', input'.ctx)
          /\ nodes' = nodes]_vars

\* a scalar call whose operands are no structs and that failed in the step
ScalarFailed(inp) == IsNonStructCall(inp) /\ ret'.status = "Err"

\* C26: scalar assignment is atomic on failure: if assign returns an error
\* the version graph is as it was before the call.
C26_AtomicOnFailure ==
  [][ScalarFailed(input') => nodes' = nodes /\ edges' = edges]_vars

\* C26: when assign returns an error (detached return value, cast target
\* without Range) it has already cast the right operand, advanced the left
\* variable (a new version without Range, or the reused latest one), written
\* the temporary origin and the dependency list of that version and, for a
\* storage left variable, recorded the storage-write relation.  What the
\* failure leaves undone is the rest: no bound is attached, the right operand
\* is not force-advanced, nothing is pushed and no error is recorded; every
\* other version is as it was.
C26_FailureKeepsLeftAdvance ==
  [][ScalarFailed(input') =>
       LET L == LhsOf(nodes, ctxs, input')
           R == RhsOf(nodes, ctxs, input')
           cast == cast_from(nodes, R, L)
           nl == IF Len(nodes') > Len(nodes) THEN Len(nodes') ELSE L
       IN  /\ ctxs' = ctxs /\ errs' = errs
           /\ Len(nodes') \in {Len(nodes), Len(nodes) + 1}
           /\ \A n \in 1..Len(nodes) : n # nl => nodes'[n] = cast[n]
           /\ nl # L =>
                /\ nodes'[nl].prev = L
                /\ ~input'.reuse \/ nodes[L].ctx # input'.ctx
           /\ nl = L => input'.reuse
           /\ Undependent(nodes'[nl]) = Undependent(nodes[L])
           /\ nodes'[nl].range = (IF nl = L THEN nodes[L].range ELSE <<>>)
           /\ nodes'[nl].tmp_of = cast[R].tmp_of
           /\ nodes'[nl].dep_on # <<>>
           /\ next_versions(nodes', R) \subseteq {nl}
           /\ {e \in edges' \ edges : e.kind = "StorageWrite"}
                = (IF nodes[L].is_storage THEN {Edge(nl, R, "StorageWrite")} ELSE {})
           /\ \A e \in edges' \ edges :
                e.kind # "StorageWrite" => e.from = R /\ e.to = nl]_vars

\* y = d has failed on the detached return value d: the storage variable y
\* has a new version without Range all the same, written to from d
C26_Witness ==
  /\ IsScalarCall(input) /\ ret.status = "Err"
  /\ ret.err = "GraphError: DetachedVariable"
  /\ input.lhs.node = 2 /\ input.rhs.node = 6
  /\ Len(nodes) = Len(RetNodes) + 1
  /\ nodes[Len(nodes)].prev = 2 /\ nodes[Len(nodes)].range = <<>>
  /\ Edge(Len(nodes), 6, "StorageWrite") \in edges
  /\ nodes[6].ty = Ty("Uint", 16)

(***************************************************************************)
(* Scalar assignment: the returned version and the version chains.         *)
(***************************************************************************)
\* the latest version of the left variable that the context of the call sees
\* after the step
LatestLeft(inp) ==
  latest_version_or_inherited_in_ctx(nodes', ctxs', inp.lhs.node, inp.ctx)

\* the returned version is bound to the right operand
CarriesAssignedRange(inp) ==
  /\ nodes'[AssignedNext].range # <<>>
  /\ Referenced(nodes'[AssignedNext].range[1].min) = RhsOf(nodes, ctxs, inp)
  /\ Referenced(nodes'[AssignedNext].range[1].max) = RhsOf(nodes, ctxs, inp)

\* C27: after every successful scalar assignment between non-structs the
\* returned version is the latest version of the left variable that the
\* context sees, and it carries the assigned Range, whatever the operands.
C27_ReturnedIsLatest ==
  [][ScalarAssigned(input') =>
       /\ LatestLeft(input') = AssignedNext
       /\ CarriesAssignedRange(input')]_vars

\* C27: after a successful scalar assignment between non-structs the returned
\* version carries the assigned Range whenever its declared type has a domain
\* to hold bounds.  If the operands are different variables it is the latest
\* version of the left variable that the context sees.  If they are the same
\* variable (x = x) it is not: the forced advance of the right operand
\* supersedes it at once with a version that has no Range.
C27_ReturnedIsLatestUnlessSelf ==
  [][ScalarAssigned(input') =>
       /\ default_range(nodes'[AssignedNext].ty) # <<>> => CarriesAssignedRange(input')
       /\ LhsOf(nodes, ctxs, input') # RhsOf(nodes, ctxs, input') =>
            LatestLeft(input') = AssignedNext
       /\ LhsOf(nodes, ctxs, input') = RhsOf(nodes, ctxs, input') =>
            /\ LatestLeft(input') > Len(nodes)
            /\ nodes'[LatestLeft(input')].prev = AssignedNext
            /\ nodes'[LatestLeft(input')].range = <<>>]_vars

\* x = x has run: the returned version of x is bound to the old x and already
\* has a successor without Range
C27_Witness ==
  /\ IsScalarCall(input) /\ ret.status = "Ok"
  /\ input.lhs.node = 1 /\ input.rhs.node = 1
  /\ Assigned = Len(InitNodes) + 1
  /\ nodes[Assigned].range # <<>>
  /\ nodes[Assigned].range[1].min = ElemReference(1)
  /\ next_versions(nodes, Assigned) = {Len(InitNodes) + 2}
  /\ nodes[Len(InitNodes) + 2].range = <<>>

\* the versions of the variable that n is a version of
ChainOf(ns, n) == {m \in 1..Len(ns) : first_version(ns, m) = first_version(ns, n)}

\* every version chain is a simple linked list: a previous version is an
\* older node, and no version has two next versions
LinearChains(ns) ==
  \A n \in 1..Len(ns) :
    /\ ns[n].prev < n
    /\ Cardinality(next_versions(ns, n)) <= 1
    /\ \A m \in next_versions(ns, n) : ns[m].prev = n

\* a successful scalar assignment between two different non-struct variables
DistinctAssigned(inp) ==
  /\ ScalarAssigned(inp)
  /\ first_version(nodes, LhsOf(nodes, ctxs, inp))
       # first_version(nodes, RhsOf(nodes, ctxs, inp))

\* how many versions the step added to the chain of n
Lengthened(n) == Cardinality(ChainOf(nodes', n)) - Cardinality(ChainOf(nodes, n))

\* C28: every version chain is a simple linked list, and each successful
\* scalar assignment with distinct left and right variables lengthens the
\* left chain by exactly one version and the right chain by exactly one.
C28_ChainsGrowByOne ==
  [][/\ LinearChains(nodes')
     /\ DistinctAssigned(input') =>
          /\ Lengthened(LhsOf(nodes, ctxs, input')) = 1
          /\ Lengthened(RhsOf(nodes, ctxs, input')) = 1]_vars

\* C28: every version chain is a simple linked list, and each successful
\* scalar assignment with distinct left and right variables lengthens the
\* right chain by exactly one version, through the forced advance, and the
\* left chain by one version, or by none when the bound does not depend on
\* the left variable and the non-forced advance reuses its latest version;
\* no other chain grows.
C28_ChainsGrowByAtMostOne ==
  [][/\ LinearChains(nodes')
     /\ DistinctAssigned(input') =>
          /\ Lengthened(RhsOf(nodes, ctxs, input')) = 1
          /\ Lengthened(LhsOf(nodes, ctxs, input')) \in {0, 1}
          /\ Lengthened(LhsOf(nodes, ctxs, input')) = 0 <=>
               /\ input'.reuse
               /\ ~SelfReferential(nodes, ctxs, input')
               /\ nodes[LhsOf(nodes, ctxs, input')].ctx = input'.ctx
          /\ Len(nodes') = Len(nodes) + 1 + Lengthened(LhsOf(nodes, ctxs, input'))]_vars

\* y = x has run without reuse: the chains of y and of x have two versions
C28_Witness ==
  /\ IsScalarCall(input) /\ ret.status = "Ok" /\ ~input.reuse
  /\ input.lhs.node = 2 /\ input.rhs.node = 1
  /\ ChainOf(nodes, 2) = {2, Len(InitNodes) + 1}
  /\ ChainOf(nodes, 1) = {1, Len(InitNodes) + 2}
  /\ Assigned = Len(InitNodes) + 1

(***************************************************************************)
(* Negative integer literals: the width and the value.                     *)
(***************************************************************************)
\* a negative decimal or hexadecimal integer literal was accepted
NegativeLiteralMade ==
  /\ ret.op \in {"number_literal", "hex_num_literal"}
  /\ ret.status = "Ok"
  /\ input.negative

\* the raw pattern of a value that is zero or below
NotPositive(raw) == raw = <<>> \/ I256IsNegative(raw)

\* C29: every signed Int(w, v) made for a negative literal by number_literal
\* or hex_num_literal is representable in two's complement at its width w:
\* -2^(w-1) <= v < 2^(w-1).
C29_RepresentableAtWidth ==
  NegativeLiteralMade =>
    /\ LitConc.kind = "Int"
    /\ NotPositive(LitConc.val)
    /\ BigLeq(Magnitude(LitConc), Pow2(LitConc.size - 1))

\* C29, amended: every signed Int(w, v) made for a negative literal by
\* number_literal or hex_num_literal has -2^255 <= v <= 0, and w is the
\* smallest multiple of 8 in 8..256 whose unsigned range holds the magnitude:
\* |v| < 2^w.
C29_WidthOfMagnitude ==
  NegativeLiteralMade =>
    /\ LitConc.kind = "Int"
    /\ NotPositive(LitConc.val)
    /\ BigLeq(Magnitude(LitConc), Pow2(255))
    /\ MinimalWidth(LitConc.size, Magnitude(LitConc))

C29_Witness ==
  /\ NegativeLiteralMade
  /\ ret.op = "hex_num_literal"
  /\ input.integer = <<"0", "x", "f", "f">>
  /\ LitConc = Concrete("Int", 8, TwosComplementNeg(<<255>>))

(***************************************************************************)
(* The decimal and the hexadecimal integer literal of one magnitude.       *)
(***************************************************************************)
HexDigitChars ==
  <<"0", "1", "2", "3", "4", "5", "6", "7", "8", "9", "a", "b", "c", "d", "e", "f">>

\* the hexadecimal text of the magnitude m, most significant digit first
HexTextOf(m) ==
  IF m = <<>> THEN <<"0", "x", "0">>
  ELSE <<"0", "x">> \o
       Mat([i \in 1..(2 * Len(m)) |->
              IF i % 2 = 1
              THEN HexDigitChars[(m[Len(m) - ((i - 1) \div 2)] \div 16) + 1]
              ELSE HexDigitChars[(m[Len(m) - ((i - 1) \div 2)] % 16) + 1]],
           2 * Len(m))

\* number_literal ran on the decimal text of a magnitude below 2^256, with
\* neither exponent nor unit
PlainDecimalRun ==
  /\ ret.op = "number_literal"
  /\ input.exponent = <<>>
  /\ input.unit = <<>>
  /\ FitsU256(DecValue(input.integer))

\* the outcome of number_literal is the outcome r of another constructor
SameOutcome(r) ==
  /\ ret.status = "Err" <=> ~r.ok
  /\ ret.status = "Ok" => LitConc = r.conc

\* C30: for every magnitude m < 2^256 and either sign, hex_num_literal on the
\* hexadecimal text of m and number_literal on the decimal text of m, without
\* exponent and unit, have the same outcome: both fail, or both produce the
\* same Concrete.
C30_HexAndDecimalAgree ==
  PlainDecimalRun =>
    SameOutcome(hex_num_literal_concrete(HexTextOf(DecValue(input.integer)),
                                         input.negative))

====
